---- MODULE Spec2Model ----
(***************************************************************************)
(* A model of the little-free-library catalog server: the BookData store   *)
(* (pkg/books/bookdata.go), the constraint combinators                     *)
(* (pkg/books/constraintFunctors.go), the ConstraintSpec                   *)
(* (pkg/books/constraintSpec.go), the refresh task                         *)
(* (cmd/library-server/service.go), the RDF loader (pkg/rdf/filters.go)    *)
(* and the request adapter (cmd/library-server/handlers.go,                *)
(* pkg/books/constraints.go).                                              *)
(*                                                                         *)
(* Nine specifications share the variables:                                 *)
(*   Spec      the store under concurrent goroutines (lock, Add, Update,   *)
(*             Get, NBooks, Query, Count, Stats);                          *)
(*   SpecQuery Query and Count applied to one snapshot and one             *)
(*             ConstraintSpec drawn from bounded sets;                     *)
(*   SpecLoad  the acquire phase of load;                                  *)
(*   SpecRefresh  the invocations of load: acquire, schedule the next      *)
(*             one, decompress, decode, publish;                           *)
(*   SpecLoader one Loader and one reader drawn from bounded sets, and     *)
(*             LoadTar / LoadOne applied to them;                          *)
(*   SpecAdapter one request drawn from a bounded set, handled by          *)
(*             bookQuery or bookCount;                                     *)
(*   SpecLock  two writers and two readers of the store;                   *)
(*   SpecUnits one call of a pure function (And, Or, CompareTo, ParseDate, *)
(*             testWords, BuildFile, Stats) on arguments drawn from        *)
(*             bounded sets;                                               *)
(*   SpecRender a sequence of render requests against a directory of      *)
(*             template files drawn from a bounded set.                    *)
(***************************************************************************)
EXTENDS Integers, Sequences, FiniteSets, TLC

VARIABLES
    books,        \* BookData.books: the sequence of EBook
    bookIDs,      \* BookData.bookIDs: map ID -> (0-based) index into books
    constraints,  \* SpecQuery: the ConstraintSpec under test
    qstate,       \* SpecQuery: final loop state of the Query made
    qcount,       \* SpecQuery: result of the Count made
    qdone,        \* SpecQuery: which of "Query", "Count" have been made
    mu,           \* BookData.mu: the goroutine holding the write lock (or
                  \* NoOne) and the set of goroutines holding read locks
    pc,           \* Spec: where each goroutine is in its current call
    op,           \* Spec: the call each goroutine is making, with its arguments
    local,        \* Spec: the locals of that call (start, k, the loop state)
    ret,          \* Spec: what the goroutine's last call returned
    snap,         \* Spec (history): the books when the call took the lock
    resourcename, \* SpecLoad: svc.Config.URL, as "http" or "file"
    loadPc,       \* SpecLoad: where load is
    resp,         \* SpecLoad: the *http.Response of the last http.Get, or Nil
    err,          \* SpecLoad: whether the last http.Get / os.Open returned an error
    retryTime,    \* SpecLoad: the backoff, in seconds
    attempts,     \* SpecLoad (history): the number of http.Get calls made
    config,       \* svc.Config
    tasks,        \* SpecRefresh: the invocations of load, in starting order
    timers,       \* SpecRefresh: the time.AfterFunc timers that have not fired
    process,      \* "running", or how the process ended
    published,    \* SpecRefresh (history): the invocations, in Update order
    loader,       \* SpecLoader: the Loader r
    loaded,       \* SpecLoader: what LoadTar / LoadOne returned
    values,       \* SpecAdapter: the url.Values, in iteration order
    response,     \* SpecAdapter, SpecRender: what the handler returned
    input,        \* SpecUnits: the function called and its arguments
    output,       \* SpecUnits: what it returned
    HTMLTemplates, \* svc.HTMLTemplates: the template cache, name -> template
    dataDir,      \* SpecRender: the files ./data/<name>.tmpl
    rendered      \* SpecRender (history): the render requests answered

qvars == <<books, bookIDs, constraints, qstate, qcount, qdone>>

svars == <<mu, pc, op, local, ret, snap>>

lvars == <<resourcename, loadPc, resp, err, retryTime, attempts>>

\* the variables of SpecRefresh, SpecLoader and SpecAdapter
uvars == <<input, output, HTMLTemplates, dataDir, rendered>>

xvars == <<config, tasks, timers, process, published,
           loader, loaded, values, response, uvars>>

\* what the actions of the store leave alone
qlvars == <<constraints, qstate, qcount, qdone, lvars, xvars>>

vars == <<books, bookIDs, constraints, qstate, qcount, qdone,
          mu, pc, op, local, ret, snap,
          resourcename, loadPc, resp, err, retryTime, attempts,
          config, tasks, timers, process, published,
          loader, loaded, values, response,
          input, output, HTMLTemplates, dataDir, rendered>>

(***************************************************************************)
(* Bounds of the model.                                                    *)
(***************************************************************************)
MaxBooks == 4     \* longest snapshot SpecQuery draws
MaxLimit == 2     \* largest ConstraintSpec.Limit drawn
MaxPage == 1      \* largest ConstraintSpec.Page drawn

(***************************************************************************)
(* EBook: the fields the store and the modelled constraints read.          *)
(***************************************************************************)
Languages == {"en", "fr"}

\* a book with its type, its files (each a list of formats) and its words
StatsBook(id, lang, type, files, words) ==
    [ID |-> id, Language |-> lang, Type |-> type,
     Files |-> [i \in DOMAIN files |-> [Formats |-> files[i]]],
     Words |-> words]

EBook(id, lang) == StatsBook(id, lang, "Text", <<>>, {})

\* booktypes.EBook{}: the zero value Get returns when the ID is unknown
ZeroEBook == StatsBook(0, "", "", <<>>, {})

Range(s) == {s[i] : i \in DOMAIN s}

Min(a, b) == IF a < b THEN a ELSE b

(***************************************************************************)
(* Strings whose characters the code reads (the names and values of        *)
(* request parameters) are sequences of one-character strings.             *)
(***************************************************************************)
Digits == <<"0", "1", "2", "3", "4", "5", "6", "7", "8", "9">>

\* the characters wordPat, "[^a-z0-9_]+", does not match
WordChars ==
    { "a", "b", "c", "d", "e", "f", "g", "h", "i", "j", "k", "l", "m",
      "n", "o", "p", "q", "r", "s", "t", "u", "v", "w", "x", "y", "z", "_" }
      \cup Range(Digits)

\* strings.ToLower, on the upper-case letters
UpperCase ==
    [A |-> "a", B |-> "b", C |-> "c", D |-> "d", E |-> "e", F |-> "f",
     G |-> "g", H |-> "h", I |-> "i", J |-> "j", K |-> "k", L |-> "l",
     M |-> "m", N |-> "n", O |-> "o", P |-> "p", Q |-> "q", R |-> "r",
     S |-> "s", T |-> "t", U |-> "u", V |-> "v", W |-> "w", X |-> "x",
     Y |-> "y", Z |-> "z"]

ToLower(s) ==
    [i \in DOMAIN s |->
        IF s[i] \in DOMAIN UpperCase THEN UpperCase[s[i]] ELSE s[i]]

\* strings.Split(s, sep), sep one character: one piece more than there are
\* separators, empty pieces included
RECURSIVE SplitFrom(_, _, _, _, _)
SplitFrom(s, sep, i, piece, pieces) ==
    IF i > Len(s) THEN Append(pieces, piece)
    ELSE IF s[i] = sep
         THEN SplitFrom(s, sep, i + 1, <<>>, Append(pieces, piece))
         ELSE SplitFrom(s, sep, i + 1, Append(piece, s[i]), pieces)

Split(s, sep) == SplitFrom(s, sep, 1, <<>>, <<>>)

\* wordPat.Split(s, -1): the pieces between the maximal runs of characters
\* outside [a-z0-9_]; the piece before a leading run and the piece after a
\* trailing run are empty strings, and the empty string has one empty piece
RECURSIVE wordPatSplit(_, _, _, _)
wordPatSplit(s, i, piece, pieces) ==
    IF i > Len(s) THEN Append(pieces, piece)
    ELSE IF s[i] \in WordChars
         THEN wordPatSplit(s, i + 1, Append(piece, s[i]), pieces)
         ELSE IF i > 1 /\ s[i - 1] \notin WordChars
              THEN wordPatSplit(s, i + 1, piece, pieces)
              ELSE wordPatSplit(s, i + 1, <<>>, Append(pieces, piece))

GetWords(s) == wordPatSplit(ToLower(s), 1, <<>>, <<>>)

\* the number a string of digits denotes
RECURSIVE DigitsValue(_, _, _)
DigitsValue(ds, i, n) ==
    IF i > Len(ds) THEN n
    ELSE DigitsValue(ds, i + 1,
                     10 * n + (CHOOSE d \in 0..9 : Digits[d + 1] = ds[i]))

\* strconv.Atoi: an optional sign and one or more digits, or 0 and an error
\* (no value of the model is long enough for a range error)
Atoi(s) ==
    LET signed == Len(s) > 0 /\ s[1] \in {"+", "-"}
        ds     == IF signed THEN Tail(s) ELSE s
    IN IF Len(ds) = 0 \/ \E i \in DOMAIN ds : ds[i] \notin Range(Digits)
       THEN [n |-> 0, err |-> TRUE]
       ELSE [n |-> IF signed /\ s[1] = "-" THEN 0 - DigitsValue(ds, 1, 0)
                   ELSE DigitsValue(ds, 1, 0),
             err |-> FALSE]

(***************************************************************************)
(* Date (year, month, day; 0 where unknown).                               *)
(***************************************************************************)
Date(y, m, d) == [Year |-> y, Month |-> m, Day |-> d]

\* CompareTo comparing year, month and day whatever the precision
CompareToExact(d, other) ==
    IF other.Year # d.Year THEN d.Year - other.Year
    ELSE IF other.Month # d.Month THEN d.Month - other.Month
    ELSE d.Day - other.Day

\* Date.CompareTo
CompareTo(d, other) ==
    IF d.Year = 0 THEN (IF other.Year = 0 THEN 0 ELSE 0 - 1)
    ELSE IF d.Month = 0 \/ d.Day = 0 THEN d.Year - other.Year
    ELSE IF other.Year = 0 THEN 1
    ELSE IF other.Month = 0 \/ other.Day = 0 THEN d.Year - other.Year
    ELSE IF other.Year # d.Year THEN d.Year - other.Year
    ELSE IF other.Month # d.Month THEN d.Month - other.Month
    ELSE d.Day - other.Day

\* strconv.Itoa of a number that is not negative
RECURSIVE Itoa(_)
Itoa(n) ==
    IF n < 10 THEN <<Digits[n + 1]>>
    ELSE Append(Itoa(n \div 10), Digits[(n % 10) + 1])

\* fmt.Sprintf("%0wd", n): zeros in front up to w characters
ZeroPadded(n, w) ==
    LET ds == Itoa(n)
    IN IF Len(ds) >= w THEN ds ELSE [i \in 1..(w - Len(ds)) |-> "0"] \o ds

\* Date.ToString (ToString is an operator of the TLC module)
DateToString(d) ==
    IF d.Year = 0 THEN <<"N", "/", "A">>
    ELSE IF d.Month = 0 \/ d.Day = 0 THEN Itoa(d.Year)
    ELSE ZeroPadded(d.Year, 4) \o <<"-">> \o ZeroPadded(d.Month, 2)
           \o <<"-">> \o ZeroPadded(d.Day, 2)

\* the n characters of s from position i on are digits
DigitsAt(s, i, n) ==
    /\ i + n - 1 <= Len(s)
    /\ \A j \in i..(i + n - 1) : s[j] \in Range(Digits)

\* \b after the word character at position i
WordEndsAt(s, i) == i = Len(s) \/ s[i + 1] \notin WordChars

\* ParseDate: the leftmost match of
\*   \b([0-9]{4})([./-]([0-9]{1,2})[./-]([0-9]{1,2}))?\b
\* four digits standing between word boundaries are the year; the month and
\* day group is taken when it matches (the longer month and then the longer
\* day first) and ends at a word boundary; the zero Date when nothing
\* matches
ParseDate(s) ==
    LET seps   == {".", "/", "-"}
        starts == { i \in 1..(Len(s) - 3) :
                      /\ DigitsAt(s, i, 4)
                      /\ i = 1 \/ s[i - 1] \notin WordChars
                      /\ WordEndsAt(s, i + 3) }
    IN IF starts = {} THEN Date(0, 0, 0)
       ELSE LET i == CHOOSE k \in starts : \A l \in starts : k <= l
                p == i + 4
                y == DigitsValue(SubSeq(s, i, i + 3), 1, 0)
                groups == { g \in {1, 2} \X {1, 2} :
                              /\ p + 2 + g[1] + g[2] - 1 <= Len(s)
                              /\ s[p] \in seps
                              /\ DigitsAt(s, p + 1, g[1])
                              /\ s[p + 1 + g[1]] \in seps
                              /\ DigitsAt(s, p + 2 + g[1], g[2])
                              /\ WordEndsAt(s, p + 1 + g[1] + g[2]) }
            IN IF groups = {} THEN Date(y, 0, 0)
               ELSE LET g == CHOOSE h \in groups : \A k \in groups :
                                h[1] > k[1] \/ (h[1] = k[1] /\ h[2] >= k[2])
                        m == SubSeq(s, p + 1, p + g[1])
                        d == SubSeq(s, p + 2 + g[1], p + 1 + g[1] + g[2])
                    IN Date(y, DigitsValue(m, 1, 0), DigitsValue(d, 1, 0))

(***************************************************************************)
(* Constraint functors and combiners.  A functor is kept as the data of    *)
(* its closure: for testLanguage, the period-separated codes of its value. *)
(***************************************************************************)
nilFunctor(eb) == FALSE

testLanguage(value, eb) == \E i \in DOMAIN value : eb.Language = value[i]

\* the functor testLanguage(value) returns
LangFunctor(codes) == [name |-> "language", value |-> codes]

\* the yearComparison of a CompareTo result
YearCompare(c, cmp) ==
    CASE cmp = "yearEQ" -> c = 0
      [] cmp = "yearGE" -> c >= 0
      [] cmp = "yearLE" -> c <= 0

\* testIssued(value, cmp): true for every book when value is empty
testIssued(value, cmp, eb) ==
    IF value = <<>> THEN TRUE
    ELSE YearCompare(CompareTo(eb.Issued, ParseDate(value)), cmp)

\* testCopyright(value, cmp): some copyright date fits the comparison
testCopyright(value, cmp, eb) ==
    IF value = <<>> THEN TRUE
    ELSE \E i \in DOMAIN eb.CopyrightDates :
            YearCompare(CompareTo(eb.CopyrightDates[i], ParseDate(value)), cmp)

\* EBook.ExtractWords with the words of the title alone
ExtractWordsOfTitle(e) == Range(GetWords(e.Title))

\* EBook.ExtractWords: the words of the title, of the subjects and of the
\* names and aliases of the agents (Agent.AddWords)
ExtractWords(e) ==
    Range(GetWords(e.Title))
      \cup UNION { Range(GetWords(e.Subjects[i])) : i \in DOMAIN e.Subjects }
      \cup UNION { Range(GetWords(e.Agents[a].Name))
                     \cup UNION { Range(GetWords(e.Agents[a].Aliases[i])) :
                                    i \in DOMAIN e.Agents[a].Aliases }
                   : a \in DOMAIN e.Agents }

\* \b between positions i and i + 1 of text: one side is a word character
\* ([0-9A-Za-z_]) and the other is not, the ends of the text being no word
\* characters
IsWordChar(c) == ToLower(<<c>>)[1] \in WordChars

WordBoundary(text, i) ==
    (i >= 1 /\ IsWordChar(text[i])) # (i < Len(text) /\ IsWordChar(text[i + 1]))

\* pat.MatchString(text) for pat = regexp.Compile(fmt.Sprintf(wholeWord,
\* value)), value holding no character that is special in a regexp: the
\* value stands somewhere in the text, whatever the case of the letters,
\* between two word boundaries
MatchString(value, text) ==
    \E i \in 0..(Len(text) - Len(value)) :
       /\ ToLower(SubSeq(text, i + 1, i + Len(value))) = ToLower(value)
       /\ WordBoundary(text, i)
       /\ WordBoundary(text, i + Len(value))

\* pat.MatchString on the name and the aliases of an agent
matchAgent(value, agent) ==
    \/ MatchString(value, agent.Name)
    \/ \E i \in DOMAIN agent.Aliases : MatchString(value, agent.Aliases[i])

matchCreator(value, eb) ==
    \E i \in DOMAIN eb.Creators : matchAgent(value, eb.Agents[eb.Creators[i]])

matchIllustrator(value, eb) ==
    \E i \in DOMAIN eb.Illustrators :
       matchAgent(value, eb.Agents[eb.Illustrators[i]])

matchSubject(value, eb) ==
    \E i \in DOMAIN eb.Subjects : MatchString(value, eb.Subjects[i])

matchTitle(value, eb) == MatchString(value, eb.Title)

\* matchGen(pat)(eb)
match(matchGen, value, eb) ==
    CASE matchGen = "matchCreator" -> matchCreator(value, eb)
      [] matchGen = "matchIllustrator" -> matchIllustrator(value, eb)
      [] matchGen = "matchSubject" -> matchSubject(value, eb)
      [] matchGen = "matchTitle" -> matchTitle(value, eb)

\* testWords(value, matchGen)(eb): false at once unless every word of the
\* value is one of eb.Words
testWords(value, matchGen, eb) ==
    LET words == Range(GetWords(value))
    IN IF Cardinality(words \cap eb.Words) # Cardinality(words) THEN FALSE
       ELSE match(matchGen, value, eb)

\* cf(eb): And(cfs...) and Or(cfs...) are functors themselves (the word
\* and pattern matchers are not modelled: no request of the model uses them)
RECURSIVE ApplyFunctor(_, _)

Or(cfs, eb) ==
    IF Len(cfs) = 0 THEN nilFunctor(eb)
    ELSE \E i \in DOMAIN cfs : ApplyFunctor(cfs[i], eb)

\* And accepting every book when it has no arguments
AndOfNoneAccepts(cfs, eb) == \A i \in DOMAIN cfs : ApplyFunctor(cfs[i], eb)

And(cfs, eb) ==
    IF Len(cfs) = 0 THEN nilFunctor(eb)
    ELSE \A i \in DOMAIN cfs : ApplyFunctor(cfs[i], eb)

ApplyFunctor(cf, eb) ==
    CASE cf.name = "language" -> testLanguage(cf.value, eb)
      [] cf.name = "issued" -> testIssued(cf.value, cf.cmp, eb)
      [] cf.name = "copyright" -> testCopyright(cf.value, cf.cmp, eb)
      [] cf.name = "And" -> And(cf.cfs, eb)
      [] cf.name = "Or" -> Or(cf.cfs, eb)
      [] cf.name = "nilFunctor" -> nilFunctor(eb)

Combine(combiner, cfs, eb) ==
    IF combiner = "And" THEN And(cfs, eb) ELSE Or(cfs, eb)

\* NewConstraintSpec(): no constraints, And / Or, 25 at a time, page 0
DefaultLimit == 25

NewConstraintSpec ==
    [Includes |-> <<>>, IncludeCombiner |-> "And",
     Excludes |-> <<>>, ExcludeCombiner |-> "Or",
     Limit |-> DefaultLimit, Page |-> 0, Random |-> FALSE]

(***************************************************************************)
(* BookData.updateIDs(start): for i := start; i < len(books); i++          *)
(*     bookIDs[books[i].ID] = i                                            *)
(***************************************************************************)
MapPut(m, k, v) == [x \in (DOMAIN m) \cup {k} |-> IF x = k THEN v ELSE m[x]]

RECURSIVE updateIDs(_, _, _)
updateIDs(bks, ids, i) ==
    IF i >= Len(bks) THEN ids
    ELSE updateIDs(bks, MapPut(ids, bks[i + 1].ID, i), i + 1)

EmptyMap == [x \in {} |-> 0]

(***************************************************************************)
(* BookData.Query: one iteration of `for k := range b.books` on book eb.   *)
(* st is the loop state (result, matchCount, replace, and whether the loop *)
(* has left through break).  u and randomIndex are the two random draws of *)
(* the replace branch: random.Float64() < Limit/matchCount is taken as     *)
(* u < Limit with u = floor(Float64() * matchCount), uniform on            *)
(* 0..matchCount-1, and randomIndex = random.Intn(Limit).                  *)
(***************************************************************************)
QueryStart == [result |-> <<>>, matchCount |-> 0, replace |-> FALSE,
               scanned |-> 0, stop |-> FALSE]

\* QueryMatches with the exclude path disabled
QueryMatchesNoExclude(eb, cs) ==
    Len(cs.Includes) = 0 \/ Combine(cs.IncludeCombiner, cs.Includes, eb)

\* lines 145-146: empty include list means include all; empty exclude list
\* means exclude none
QueryMatches(eb, cs) ==
    IF Len(cs.Includes) = 0 \/ Combine(cs.IncludeCombiner, cs.Includes, eb)
    THEN Len(cs.Excludes) = 0 \/ ~Combine(cs.ExcludeCombiner, cs.Excludes, eb)
    ELSE FALSE

\* QueryKeep skipping the earlier pages in random mode as well
QueryKeepPaged(s1, eb, cs, u, randomIndex) ==
    LET s2 == [s1 EXCEPT !.matchCount = @ + 1] IN
    IF s2.matchCount < cs.Limit * cs.Page
    THEN s2
    ELSE IF s2.replace
         THEN IF u < cs.Limit
              THEN [s2 EXCEPT !.result[randomIndex + 1] = eb]
              ELSE s2
         ELSE [s2 EXCEPT !.result = Append(@, eb)]

\* QueryKeep replacing on every later match, whatever the first draw
QueryKeepAlways(s1, eb, cs, u, randomIndex) ==
    LET s2 == [s1 EXCEPT !.matchCount = @ + 1] IN
    IF ~cs.Random /\ s2.matchCount < cs.Limit * cs.Page
    THEN s2
    ELSE IF s2.replace
         THEN [s2 EXCEPT !.result[randomIndex + 1] = eb]
         ELSE [s2 EXCEPT !.result = Append(@, eb)]

\* lines 147-159: what the loop does with a matching book; s1 already has
\* replace set by the top of the iteration
QueryKeep(s1, eb, cs, u, randomIndex) ==
    LET s2 == [s1 EXCEPT !.matchCount = @ + 1] IN
    IF ~cs.Random /\ s2.matchCount < cs.Limit * cs.Page
    THEN s2
    ELSE IF s2.replace
         THEN IF u < cs.Limit
              THEN [s2 EXCEPT !.result[randomIndex + 1] = eb]
              ELSE s2
         ELSE [s2 EXCEPT !.result = Append(@, eb)]

\* QueryLimitReached comparing with > instead of >=
QueryLimitReachedLate(st, cs) == Len(st.result) > cs.Limit

\* lines 137-143: the limit test at the top of the iteration
QueryLimitReached(st, cs) == Len(st.result) >= cs.Limit

QueryIter(st, eb, cs, u, randomIndex) ==
    IF QueryLimitReached(st, cs) /\ ~cs.Random
    THEN [st EXCEPT !.stop = TRUE]
    ELSE
      LET s1 == [st EXCEPT !.replace = @ \/ QueryLimitReached(st, cs),
                           !.scanned = @ + 1]
      IN IF QueryMatches(eb, cs) THEN QueryKeep(s1, eb, cs, u, randomIndex)
                                 ELSE s1

\* the number of equally likely values of the pair of draws made on book eb
\* in loop state st: matchCount * Limit in the replace branch, else one
NDraws(st, eb, cs) ==
    IF cs.Random /\ (st.replace \/ QueryLimitReached(st, cs))
                 /\ QueryMatches(eb, cs) /\ cs.Limit > 0
    THEN (st.matchCount + 1) * cs.Limit
    ELSE 1

\* draw number j as the pair <<u, randomIndex>>
Draw(j, cs) == IF cs.Limit > 0 THEN <<j \div cs.Limit, j % cs.Limit>>
                               ELSE <<0, 0>>

Draws(st, eb, cs) == {Draw(j, cs) : j \in 0 .. NDraws(st, eb, cs) - 1}

\* the loop from index k on: sts is the set of loop states the draws made
\* so far can have led to; a state that left through break stays as it is
RECURSIVE QueryFrom(_, _, _, _)
QueryFrom(bks, k, sts, cs) ==
    IF k >= Len(bks) THEN sts
    ELSE QueryFrom(bks, k + 1,
                   UNION { IF st.stop THEN {st}
                           ELSE { QueryIter(st, bks[k + 1], cs, d[1], d[2])
                                  : d \in Draws(st, bks[k + 1], cs) }
                           : st \in sts },
                   cs)

\* every final loop state a call of Query can end in
Query(bks, cs) == QueryFrom(bks, 0, {QueryStart}, cs)

QueryResults(bks, cs) == {st.result : st \in Query(bks, cs)}

(***************************************************************************)
(* BookData.Count: the same candidacy test, counting only.                 *)
(***************************************************************************)
\* CountIter stopping at Limit, as Query does
CountIterUpToLimit(matchCount, eb, cs) ==
    IF matchCount >= cs.Limit THEN matchCount
    ELSE IF Len(cs.Includes) = 0 \/ Combine(cs.IncludeCombiner, cs.Includes, eb)
         THEN IF Len(cs.Excludes) = 0
                   \/ ~Combine(cs.ExcludeCombiner, cs.Excludes, eb)
              THEN matchCount + 1
              ELSE matchCount
         ELSE matchCount

CountIter(matchCount, eb, cs) ==
    IF Len(cs.Includes) = 0 \/ Combine(cs.IncludeCombiner, cs.Includes, eb)
    THEN IF Len(cs.Excludes) = 0 \/ ~Combine(cs.ExcludeCombiner, cs.Excludes, eb)
         THEN matchCount + 1
         ELSE matchCount
    ELSE matchCount

RECURSIVE CountFrom(_, _, _, _)
CountFrom(bks, k, matchCount, cs) ==
    IF k >= Len(bks) THEN matchCount
    ELSE CountFrom(bks, k + 1, CountIter(matchCount, bks[k + 1], cs), cs)

Count(bks, cs) == CountFrom(bks, 0, 0, cs)

(***************************************************************************)
(* BookData.Stats.  The loop state is sd together with totalWordsInIndex;  *)
(* the float64 quotient that ends the call is kept as numerator and        *)
(* denominator, and 0 / 0 is NaN.                                          *)
(***************************************************************************)
StatsStart ==
    [TotalBooks |-> 0, TotalFiles |-> 0, totalWordsInIndex |-> 0,
     Languages |-> [x \in {} |-> 0], Formats |-> [x \in {} |-> 0],
     Types |-> [x \in {} |-> 0]]

\* m[k]++ on a map[string]int
Increment(m, k) == MapPut(m, k, IF k \in DOMAIN m THEN m[k] + 1 ELSE 1)

\* for _, fmt := range f.Formats { sd.TotalFiles++; sd.Formats[fmt]++ }
RECURSIVE StatsFormats(_, _, _)
StatsFormats(sd, formats, j) ==
    IF j > Len(formats) THEN sd
    ELSE StatsFormats([sd EXCEPT !.TotalFiles = @ + 1,
                                 !.Formats = Increment(@, formats[j])],
                      formats, j + 1)

\* for _, f := range b.books[i].Files
RECURSIVE StatsFiles(_, _, _)
StatsFiles(sd, files, i) ==
    IF i > Len(files) THEN sd
    ELSE StatsFiles(StatsFormats(sd, files[i].Formats, 1), files, i + 1)

\* one iteration of for i := range b.books
StatsIter(sd, eb) ==
    StatsFiles([sd EXCEPT !.totalWordsInIndex = @ + Cardinality(eb.Words),
                          !.TotalBooks = @ + 1,
                          !.Languages = Increment(@, eb.Language),
                          !.Types = Increment(@, eb.Type)],
               eb.Files, 1)

RECURSIVE StatsFrom(_, _, _)
StatsFrom(bks, i, sd) ==
    IF i >= Len(bks) THEN sd
    ELSE StatsFrom(bks, i + 1, StatsIter(sd, bks[i + 1]))

\* a / b on float64, kept as the pair of its operands: the quotient is a
\* number when b is not 0, and 0 / 0 is NaN
Quotient(a, b) == [num |-> a, den |-> b]

NaN == Quotient(0, 0)

\* sd.AvgIndexSize = totalWordsInIndex / float64(sd.TotalBooks); return sd
StatsEnd(sd) ==
    [TotalBooks |-> sd.TotalBooks, TotalFiles |-> sd.TotalFiles,
     AvgIndexSize |-> Quotient(sd.totalWordsInIndex, sd.TotalBooks),
     Languages |-> sd.Languages, Formats |-> sd.Formats, Types |-> sd.Types]

Stats(bks) == StatsEnd(StatsFrom(bks, 0, StatsStart))

(***************************************************************************)
(* Spec: the store under concurrent goroutines.  The refresh task writes   *)
(* (Update; Add is the bulk-build entry point), request handlers read.     *)
(* Every call is: take the lock, run the body, release the lock on return  *)
(* (defer).  The bodies of Query and Count advance one loop iteration per  *)
(* step.                                                                   *)
(***************************************************************************)
MaxStore == 3     \* Add is not called beyond this many books

Writers == {"refresh"}
Readers == {"handler"}
Goroutines == Writers \cup Readers

NoOne == "none"
NoCall == [name |-> "none"]

\* the datasets the refresh task publishes, and the arguments of Add
UpdateArgs ==
    { <<>>,
      <<EBook(1, "en"), EBook(2, "fr")>>,
      <<EBook(3, "en")>>,
      <<EBook(2, "en"), EBook(1, "fr"), EBook(3, "fr")>> }

AddArgs ==
    { <<EBook(1, "en")>>,
      <<EBook(2, "fr"), EBook(3, "en")>> }

\* the arguments of the handlers' calls
GetArgs == {1, 2, 3}

HandlerSpecs ==
    { [NewConstraintSpec EXCEPT !.Limit = 2],
      [NewConstraintSpec EXCEPT !.Limit = 1, !.Random = TRUE],
      [NewConstraintSpec EXCEPT !.Includes = <<LangFunctor(<<"en">>)>>,
                                !.Limit = 2, !.Page = 1] }

\* sync.RWMutex: Lock waits for the writer and the readers to leave; RLock
\* waits for the writer to leave and for no Lock call to be pending
\* Lock that does not wait for the readers to leave
CanLockDespiteReaders(g) == mu.writer = NoOne

CanLock(g) == mu.writer = NoOne /\ mu.readers = {}

\* RLock that does not wait for the writer
CanRLockAnyTime(g) == pc[g] = "RLock"

CanRLock(g) ==
    /\ mu.writer = NoOne
    /\ \A w \in DOMAIN pc : pc[w] # "Lock"

\* a nil *http.Response
Nil == [nil |-> TRUE]

\* load has not been started
LoadIdle ==
    /\ resourcename = "http"
    /\ loadPc = "idle"
    /\ resp = Nil
    /\ err = FALSE
    /\ retryTime = 0
    /\ attempts = 0

\* main.go 39-53: the Config of a server left at its defaults (of the
\* formats, the two the model has files for)
DefaultMaxLimit == 100

DefaultConfig ==
    [URL |-> [scheme |-> "file", ext |-> <<"tar", "bz2">>],
     Languages |-> <<"en">>,
     Formats |-> <<"epub", "html_text">>,
     LoadAtMost |-> 0,
     MaxLimit |-> DefaultMaxLimit,
     NoCacheTemplates |-> FALSE]

MaxLoads == 2     \* load is not started more often than this

NoTask == [pc |-> "none"]

\* no function has been called and no template rendered
UnitsIdle ==
    /\ input = NoCall
    /\ output = NoCall
    /\ HTMLTemplates = EmptyMap
    /\ dataDir = EmptyMap
    /\ rendered = <<>>

\* no load has been started, no Loader built and no request received
RefreshIdle ==
    /\ UnitsIdle
    /\ config = DefaultConfig
    /\ tasks = [t \in 1..MaxLoads |-> NoTask]
    /\ timers = 0
    /\ process = "running"
    /\ published = <<>>
    /\ loader = NoCall
    /\ loaded = NoCall
    /\ values = <<>>
    /\ response = NoCall

StoreIdle ==
    /\ mu = [writer |-> NoOne, readers |-> {}]
    /\ pc = [g \in Goroutines |-> "idle"]
    /\ op = [g \in Goroutines |-> NoCall]
    /\ local = [g \in Goroutines |-> NoCall]
    /\ ret = [g \in Goroutines |-> NoCall]
    /\ snap = [g \in Goroutines |-> <<>>]

\* NewBookData()
Init ==
    /\ books = <<>>
    /\ bookIDs = EmptyMap
    /\ constraints = NewConstraintSpec
    /\ qstate = QueryStart
    /\ qcount = 0
    /\ qdone = {}
    /\ StoreIdle
    /\ LoadIdle
    /\ RefreshIdle

\* a goroutine starts a call: the next thing it does is take the lock
Call(g, o, lockStep) ==
    /\ pc[g] = "idle"
    /\ op' = [op EXCEPT ![g] = o]
    /\ pc' = [pc EXCEPT ![g] = lockStep]
    /\ ret' = [ret EXCEPT ![g] = NoCall]
    /\ snap' = [snap EXCEPT ![g] = <<>>]
    /\ UNCHANGED <<qlvars, books, bookIDs, mu, local>>

CallAdd(g, bs) ==
    /\ Len(books) + Len(bs) <= MaxStore
    /\ Call(g, [name |-> "Add", bs |-> bs], "Lock")

CallUpdate(g, bs) == Call(g, [name |-> "Update", bs |-> bs], "Lock")

CallGet(g, id) == Call(g, [name |-> "Get", id |-> id], "RLock")

CallNBooks(g) == Call(g, [name |-> "NBooks"], "RLock")

CallQuery(g, cs) == Call(g, [name |-> "Query", cs |-> cs], "RLock")

CallCount(g, cs) == Call(g, [name |-> "Count", cs |-> cs], "RLock")

CallStats(g) == Call(g, [name |-> "Stats", cs |-> NewConstraintSpec], "RLock")

\* b.mu.Lock()
Lock(g) ==
    /\ pc[g] = "Lock"
    /\ CanLock(g)
    /\ mu' = [mu EXCEPT !.writer = g]
    /\ pc' = [pc EXCEPT ![g] = "assign"]
    /\ UNCHANGED <<qlvars, books, bookIDs, op, local, ret, snap>>

\* Add: start := len(b.books); b.books = append(b.books, bs...)
AddAppend(g) ==
    /\ pc[g] = "assign" /\ op[g].name = "Add"
    /\ local' = [local EXCEPT ![g] = [name |-> "Add", start |-> Len(books)]]
    /\ books' = books \o op[g].bs
    /\ pc' = [pc EXCEPT ![g] = "updateIDs"]
    /\ UNCHANGED <<qlvars, bookIDs, mu, op, ret, snap>>

\* Update: b.books = bs
UpdateAssign(g) ==
    /\ pc[g] = "assign" /\ op[g].name = "Update"
    /\ local' = [local EXCEPT ![g] = [name |-> "Update", start |-> 0]]
    /\ books' = op[g].bs
    /\ pc' = [pc EXCEPT ![g] = "updateIDs"]
    /\ UNCHANGED <<qlvars, bookIDs, mu, op, ret, snap>>

\* Add, Update: b.updateIDs(start)
UpdateIDs(g) ==
    /\ pc[g] = "updateIDs"
    /\ bookIDs' = updateIDs(books, bookIDs, local[g].start)
    /\ pc' = [pc EXCEPT ![g] = "Unlock"]
    /\ ret' = [ret EXCEPT ![g] = [name |-> op[g].name]]
    /\ UNCHANGED <<qlvars, books, mu, op, local, snap>>

\* defer b.mu.Unlock()
Unlock(g) ==
    /\ pc[g] = "Unlock"
    /\ mu' = [mu EXCEPT !.writer = NoOne]
    /\ pc' = [pc EXCEPT ![g] = "idle"]
    /\ local' = [local EXCEPT ![g] = NoCall]
    /\ UNCHANGED <<qlvars, books, bookIDs, op, ret, snap>>

\* b.mu.RLock(); the loops of Query and Count range over the books from here
RLock(g) ==
    /\ pc[g] = "RLock"
    /\ CanRLock(g)
    /\ mu' = [mu EXCEPT !.readers = @ \cup {g}]
    /\ pc' = [pc EXCEPT ![g] = "body"]
    /\ snap' = [snap EXCEPT ![g] = books]
    /\ local' = [local EXCEPT ![g] =
                   [name |-> op[g].name, k |-> 0, n |-> Len(books),
                    st |-> QueryStart, sd |-> StatsStart]]
    /\ UNCHANGED <<qlvars, books, bookIDs, op, ret>>

\* Get: if ix, ok := b.bookIDs[id]; ok { return b.books[ix], true }
\*      return booktypes.EBook{}, false
\* b.books[ix] with ix out of range is a run-time panic
GetResult(id) ==
    IF id \in DOMAIN bookIDs
    THEN IF bookIDs[id] < Len(books)
         THEN [name |-> "Get", id |-> id, book |-> books[bookIDs[id] + 1],
               ok |-> TRUE, panic |-> FALSE]
         ELSE [name |-> "Get", id |-> id, book |-> ZeroEBook,
               ok |-> FALSE, panic |-> TRUE]
    ELSE [name |-> "Get", id |-> id, book |-> ZeroEBook,
          ok |-> FALSE, panic |-> FALSE]

GetBody(g) ==
    /\ pc[g] = "body" /\ op[g].name = "Get"
    /\ ret' = [ret EXCEPT ![g] = GetResult(op[g].id)]
    /\ pc' = [pc EXCEPT ![g] = "RUnlock"]
    /\ UNCHANGED <<qlvars, books, bookIDs, mu, op, local, snap>>

\* NBooks: return len(b.books)
NBooksBody(g) ==
    /\ pc[g] = "body" /\ op[g].name = "NBooks"
    /\ ret' = [ret EXCEPT ![g] = [name |-> "NBooks", n |-> Len(books)]]
    /\ pc' = [pc EXCEPT ![g] = "RUnlock"]
    /\ UNCHANGED <<qlvars, books, bookIDs, mu, op, local, snap>>

\* the loop of Query or Count has iterations left
Looping(g) == local[g].k < local[g].n /\ ~local[g].st.stop

\* the failed call: an index beyond the books the loop ranges over is a
\* run-time panic (it takes the books to change under the loop)
Panicked(g) ==
    /\ ret' = [ret EXCEPT ![g] = [name |-> op[g].name, cs |-> op[g].cs,
                                  result |-> <<>>, count |-> 0,
                                  sd |-> StatsStart, panic |-> TRUE]]
    /\ pc' = [pc EXCEPT ![g] = "RUnlock"]
    /\ UNCHANGED local

\* Query: one iteration of for k := range b.books
QueryStep(g) ==
    /\ pc[g] = "body" /\ op[g].name = "Query" /\ Looping(g)
    /\ IF local[g].k >= Len(books)
       THEN Panicked(g)
       ELSE /\ \E d \in Draws(local[g].st, books[local[g].k + 1], op[g].cs) :
                  local' = [local EXCEPT
                     ![g].st = QueryIter(@, books[local[g].k + 1], op[g].cs,
                                         d[1], d[2]),
                     ![g].k = @ + 1]
            /\ UNCHANGED <<pc, ret>>
    /\ UNCHANGED <<qlvars, books, bookIDs, mu, op, snap>>

\* Query: return result
QueryReturn(g) ==
    /\ pc[g] = "body" /\ op[g].name = "Query" /\ ~Looping(g)
    /\ ret' = [ret EXCEPT ![g] = [name |-> "Query", cs |-> op[g].cs,
                                  result |-> local[g].st.result,
                                  count |-> 0, sd |-> StatsStart,
                                  panic |-> FALSE]]
    /\ pc' = [pc EXCEPT ![g] = "RUnlock"]
    /\ UNCHANGED <<qlvars, books, bookIDs, mu, op, local, snap>>

\* Count: one iteration of for k := range b.books
CountStep(g) ==
    /\ pc[g] = "body" /\ op[g].name = "Count" /\ Looping(g)
    /\ IF local[g].k >= Len(books)
       THEN Panicked(g)
       ELSE /\ local' = [local EXCEPT
                   ![g].st.matchCount =
                       CountIter(@, books[local[g].k + 1], op[g].cs),
                   ![g].k = @ + 1]
            /\ UNCHANGED <<pc, ret>>
    /\ UNCHANGED <<qlvars, books, bookIDs, mu, op, snap>>

\* Count: return matchCount
CountReturn(g) ==
    /\ pc[g] = "body" /\ op[g].name = "Count" /\ ~Looping(g)
    /\ ret' = [ret EXCEPT ![g] = [name |-> "Count", cs |-> op[g].cs,
                                  result |-> <<>>,
                                  count |-> local[g].st.matchCount,
                                  sd |-> StatsStart, panic |-> FALSE]]
    /\ pc' = [pc EXCEPT ![g] = "RUnlock"]
    /\ UNCHANGED <<qlvars, books, bookIDs, mu, op, local, snap>>

\* Stats: one iteration of for i := range b.books
StatsStep(g) ==
    /\ pc[g] = "body" /\ op[g].name = "Stats" /\ Looping(g)
    /\ IF local[g].k >= Len(books)
       THEN Panicked(g)
       ELSE /\ local' = [local EXCEPT
                   ![g].sd = StatsIter(@, books[local[g].k + 1]),
                   ![g].k = @ + 1]
            /\ UNCHANGED <<pc, ret>>
    /\ UNCHANGED <<qlvars, books, bookIDs, mu, op, snap>>

\* Stats: return sd
StatsReturn(g) ==
    /\ pc[g] = "body" /\ op[g].name = "Stats" /\ ~Looping(g)
    /\ ret' = [ret EXCEPT ![g] = [name |-> "Stats", cs |-> op[g].cs,
                                  result |-> <<>>, count |-> 0,
                                  sd |-> StatsEnd(local[g].sd),
                                  panic |-> FALSE]]
    /\ pc' = [pc EXCEPT ![g] = "RUnlock"]
    /\ UNCHANGED <<qlvars, books, bookIDs, mu, op, local, snap>>

\* defer b.mu.RUnlock()
RUnlock(g) ==
    /\ pc[g] = "RUnlock"
    /\ mu' = [mu EXCEPT !.readers = @ \ {g}]
    /\ pc' = [pc EXCEPT ![g] = "idle"]
    /\ local' = [local EXCEPT ![g] = NoCall]
    /\ UNCHANGED <<qlvars, books, bookIDs, op, ret, snap>>

Next ==
    \/ \E g \in Writers :
          \/ \E bs \in AddArgs : CallAdd(g, bs)
          \/ \E bs \in UpdateArgs : CallUpdate(g, bs)
          \/ Lock(g)
          \/ AddAppend(g)
          \/ UpdateAssign(g)
          \/ UpdateIDs(g)
          \/ Unlock(g)
    \/ \E g \in Readers :
          \/ \E id \in GetArgs : CallGet(g, id)
          \/ CallNBooks(g)
          \/ \E cs \in HandlerSpecs : CallQuery(g, cs)
          \/ \E cs \in HandlerSpecs : CallCount(g, cs)
          \/ RLock(g)
          \/ GetBody(g)
          \/ NBooksBody(g)
          \/ QueryStep(g)
          \/ QueryReturn(g)
          \/ CountStep(g)
          \/ CountReturn(g)
          \/ CallStats(g)
          \/ StatsStep(g)
          \/ StatsReturn(g)
          \/ RUnlock(g)

Spec == Init /\ [][Next]_vars

(***************************************************************************)
(* SpecLock: the lock of the store under two writers (the refresh task in  *)
(* Update, a bulk build in Add) and two request handlers, each call with   *)
(* one argument.                                                           *)
(***************************************************************************)
LockWriters == {"refresh", "build"}
LockReaders == {"handler", "handler2"}
LockGoroutines == LockWriters \cup LockReaders

InitLock ==
    /\ books = <<>>
    /\ bookIDs = EmptyMap
    /\ constraints = NewConstraintSpec
    /\ qstate = QueryStart
    /\ qcount = 0
    /\ qdone = {}
    /\ mu = [writer |-> NoOne, readers |-> {}]
    /\ pc = [g \in LockGoroutines |-> "idle"]
    /\ op = [g \in LockGoroutines |-> NoCall]
    /\ local = [g \in LockGoroutines |-> NoCall]
    /\ ret = [g \in LockGoroutines |-> NoCall]
    /\ snap = [g \in LockGoroutines |-> <<>>]
    /\ LoadIdle
    /\ RefreshIdle

NextLock ==
    \/ CallUpdate("refresh", <<EBook(1, "en"), EBook(2, "fr")>>)
    \/ CallAdd("build", <<EBook(3, "en")>>)
    \/ \E g \in LockWriters :
          \/ Lock(g)
          \/ AddAppend(g)
          \/ UpdateAssign(g)
          \/ UpdateIDs(g)
          \/ Unlock(g)
    \/ \E g \in LockReaders :
          \/ CallGet(g, 1)
          \/ CallNBooks(g)
          \/ CallQuery(g, [NewConstraintSpec EXCEPT !.Limit = 2])
          \/ CallCount(g, NewConstraintSpec)
          \/ CallStats(g)
          \/ RLock(g)
          \/ GetBody(g)
          \/ NBooksBody(g)
          \/ QueryStep(g)
          \/ QueryReturn(g)
          \/ CountStep(g)
          \/ CountReturn(g)
          \/ StatsStep(g)
          \/ StatsReturn(g)
          \/ RUnlock(g)

SpecLock == InitLock /\ [][NextLock]_vars

(***************************************************************************)
(* SpecLoad: the acquire phase of load (service.go), run as a goroutine.   *)
(***************************************************************************)
MaxAttempts == 5    \* http.Get is not called more often than this

\* the status codes http.Get is given to return
StatusCodes == {200, 204, 301, 404, 500, 503}

Response(code) == [nil |-> FALSE, StatusCode |-> code]

\* what http.Get returns: a response and no error; no response and an error
\* (a transport error); or, when following redirects fails, the last
\* response together with an error
GetOutcomes ==
    { <<Response(c), FALSE>> : c \in StatusCodes }
      \cup { <<Nil, TRUE>> }
      \cup { <<Response(301), TRUE>> }

InitLoad ==
    /\ books = <<>>
    /\ bookIDs = EmptyMap
    /\ constraints = NewConstraintSpec
    /\ qstate = QueryStart
    /\ qcount = 0
    /\ qdone = {}
    /\ StoreIdle
    /\ RefreshIdle
    /\ resourcename \in {"http", "file"}
    /\ loadPc = "begin"
    /\ resp = Nil
    /\ err = FALSE
    /\ retryTime = 0
    /\ attempts = 0

notLoad == <<books, bookIDs, constraints, qstate, qcount, qdone, svars, xvars>>

\* if strings.HasPrefix(resourcename, "http") {
\*     for retryTime, _ := time.ParseDuration("1s"); ...
LoadBegin ==
    /\ loadPc = "begin"
    /\ IF resourcename = "http"
       THEN loadPc' = "Get" /\ retryTime' = 1
       ELSE loadPc' = "Open" /\ UNCHANGED retryTime
    /\ UNCHANGED <<notLoad, resourcename, resp, err, attempts>>

\* resp, err := http.Get(resourcename)
HttpGet ==
    /\ loadPc = "Get"
    /\ attempts < MaxAttempts
    /\ \E o \in GetOutcomes : resp' = o[1] /\ err' = o[2]
    /\ attempts' = attempts + 1
    /\ loadPc' = "log"
    /\ UNCHANGED <<notLoad, resourcename, retryTime>>

\* log.Printf("Got %d fetching %s", resp.StatusCode, resourcename):
\* resp.StatusCode on a nil resp is a nil pointer dereference, a run-time
\* panic that no one recovers: the process dies
LogStatus ==
    /\ loadPc = "log"
    /\ loadPc' = IF resp = Nil THEN "panic" ELSE "check"
    /\ UNCHANGED <<notLoad, resourcename, resp, err, retryTime, attempts>>

\* if err == nil && resp.StatusCode < 300 { rdr = resp.Body; break }
CheckStatus ==
    /\ loadPc = "check"
    /\ loadPc' = IF ~err /\ resp.StatusCode < 300 THEN "acquired" ELSE "failed"
    /\ UNCHANGED <<notLoad, resourcename, resp, err, retryTime, attempts>>

\* status := resp.Status; if err != nil { status = err.Error() }
\* log.Printf("load: couldn't fetch ...")
LogFailure ==
    /\ loadPc = "failed"
    /\ loadPc' = "Sleep"
    /\ UNCHANGED <<notLoad, resourcename, resp, err, retryTime, attempts>>

\* time.Sleep(retryTime); retryTime *= 2; the next iteration
Sleep ==
    /\ loadPc = "Sleep"
    /\ retryTime' = retryTime * 2
    /\ loadPc' = "Get"
    /\ UNCHANGED <<notLoad, resourcename, resp, err, attempts>>

\* f, err := os.Open(resourcename); if err != nil { log.Fatalf(...) }
OpenFile ==
    /\ loadPc = "Open"
    /\ \E e \in BOOLEAN :
          /\ err' = e
          /\ loadPc' = IF e THEN "fatal" ELSE "acquired"
    /\ UNCHANGED <<notLoad, resourcename, resp, retryTime, attempts>>

NextLoad ==
    \/ LoadBegin
    \/ HttpGet
    \/ LogStatus
    \/ CheckStatus
    \/ LogFailure
    \/ Sleep
    \/ OpenFile

SpecLoad == InitLoad /\ [][NextLoad]_vars

(***************************************************************************)
(* Properties of load (checked under SpecLoad).                            *)
(***************************************************************************)
\* the last http.Get ended in a transport error or in a non-2xx status
FetchFailed ==
    err \/ resp = Nil \/ resp.StatusCode < 200 \/ resp.StatusCode >= 300

\* C10: with an HTTP(S) source no failed fetch attempt, whether a transport
\* error or a non-2xx status, crashes or ends the refresh task: each is
\* followed by the failure log, the sleep and a further attempt, and load
\* goes on past the loop only after a successful attempt.
C10_FailedFetchRetries ==
    resourcename = "http" =>
       /\ loadPc # "panic"
       /\ loadPc = "acquired" => ~FetchFailed

(***************************************************************************)
(* Properties of the store under concurrency (checked under Spec).         *)
(***************************************************************************)
\* C1: whatever the interleaving of reads with Update, each read result is
\* computed from exactly one dataset: while a reader is inside its call the
\* books are those it found when it took the lock, a Query result is a
\* possible result of Query on that one dataset (so all its books come from
\* it), and Count, Stats and NBooks return that dataset's values.
C1_ReadsOneDataset ==
    \A g \in Readers :
       /\ pc[g] \in {"body", "RUnlock"} => books = snap[g]
       /\ ret[g].name \in {"Query", "Count", "Stats"} => ~ret[g].panic
       /\ ret[g].name = "Query" =>
            /\ ret[g].result \in QueryResults(snap[g], ret[g].cs)
            /\ Range(ret[g].result) \subseteq Range(snap[g])
       /\ ret[g].name = "Count" => ret[g].count = Count(snap[g], ret[g].cs)
       /\ ret[g].name = "Stats" => ret[g].sd = Stats(snap[g])
       /\ ret[g].name = "NBooks" => ret[g].n = Len(snap[g])

\* a Query has returned books under its read lock while an Update with
\* another dataset is waiting for the lock
C1_Witness ==
    \E g \in Readers, w \in Writers :
       /\ pc[g] = "RUnlock" /\ ret[g].name = "Query" /\ ret[g].result # <<>>
       /\ pc[w] = "Lock" /\ op[w].name = "Update"
       /\ op[w].bs # <<>> /\ Range(op[w].bs) \cap Range(snap[g]) = {}

\* C2: Get(id) returns (b, true) with b.ID = id exactly when a book of the
\* current sequence has that ID, and (zero book, false) without failing
\* otherwise.
C2_GetMatchesStore ==
    \A g \in Readers :
       ret[g].name = "Get" =>
          LET present == \E i \in DOMAIN snap[g] : snap[g][i].ID = ret[g].id
          IN /\ ~ret[g].panic
             /\ ret[g].ok <=> present
             /\ ret[g].ok => ret[g].book.ID = ret[g].id
             /\ ~ret[g].ok => ret[g].book = ZeroEBook

\* C3: whenever no writer is inside Add or Update, the keys of bookIDs are
\* exactly the IDs of the books in the sequence and each key maps to a valid
\* position whose book has that ID.
C3_IDsInSync ==
    mu.writer = NoOne =>
       /\ DOMAIN bookIDs = {books[i].ID : i \in DOMAIN books}
       /\ \A id \in DOMAIN bookIDs :
             /\ bookIDs[id] < Len(books)
             /\ books[bookIDs[id] + 1].ID = id

(***************************************************************************)
(* Properties of the lock (checked under SpecLock).                        *)
(***************************************************************************)
\* the goroutine is between taking the lock and releasing it
InsideWrite(g) == pc[g] \in {"assign", "updateIDs", "Unlock"}

InsideRead(g) == pc[g] \in {"body", "RUnlock"}

\* the goroutine is in a call and is not waiting for the lock
Runnable(g) ==
    /\ pc[g] # "idle"
    /\ pc[g] = "Lock" => CanLock(g)
    /\ pc[g] = "RLock" => CanRLock(g)

\* C26: while Update or Add is inside its critical section no other
\* operation is inside one; reads may be inside theirs together; every
\* operation has released the lock when it has returned; and whenever some
\* operation is under way, one of them can take a step (no deadlock).
C26_ReaderWriterLock ==
    /\ \A w \in DOMAIN pc :
          InsideWrite(w) =>
             \A g \in DOMAIN pc \ {w} : ~InsideWrite(g) /\ ~InsideRead(g)
    /\ \A g \in DOMAIN pc :
          pc[g] = "idle" => mu.writer # g /\ g \notin mu.readers
    /\ (\E g \in DOMAIN pc : pc[g] # "idle")
          => \E g \in DOMAIN pc : Runnable(g)

\* two reads are inside their critical sections together while an Update
\* waits for the lock
C26_Witness ==
    /\ InsideRead("handler") /\ pc["handler"] = "body"
    /\ InsideRead("handler2") /\ pc["handler2"] = "body"
    /\ pc["refresh"] = "Lock"
    /\ op["refresh"].name = "Update"

(***************************************************************************)
(* SpecQuery: Query and Count on one snapshot.                             *)
(***************************************************************************)
\* snapshots: n books with IDs 1..n in insertion order, any languages
QSnapshots ==
    UNION { { [i \in 1..n |-> EBook(i, l[i])] : l \in [1..n -> Languages] }
            : n \in 0..MaxBooks }

QFunctorLists ==
    { <<>>,
      <<LangFunctor(<<"en">>)>>,
      <<LangFunctor(<<"en">>), LangFunctor(<<"fr">>)>> }

QSpecs ==
    [Includes : QFunctorLists, IncludeCombiner : {"And", "Or"},
     Excludes : QFunctorLists, ExcludeCombiner : {"And", "Or"},
     Limit : 1..MaxLimit, Page : 0..MaxPage, Random : BOOLEAN]


InitQuery ==
    /\ books \in QSnapshots
    /\ bookIDs = updateIDs(books, EmptyMap, 0)
    /\ constraints \in QSpecs
    /\ qstate = QueryStart
    /\ qcount = 0
    /\ qdone = {}
    /\ StoreIdle
    /\ LoadIdle
    /\ RefreshIdle

DoQuery ==
    /\ "Query" \notin qdone
    /\ \E st \in Query(books, constraints) : qstate' = st
    /\ qdone' = qdone \cup {"Query"}
    /\ UNCHANGED <<books, bookIDs, constraints, qcount>>
    /\ UNCHANGED <<svars, lvars, xvars>>

DoCount ==
    /\ "Count" \notin qdone
    /\ qcount' = Count(books, constraints)
    /\ qdone' = qdone \cup {"Count"}
    /\ UNCHANGED <<books, bookIDs, constraints, qstate>>
    /\ UNCHANGED <<svars, lvars, xvars>>

NextQuery == DoQuery \/ DoCount

SpecQuery == InitQuery /\ [][NextQuery]_vars

(***************************************************************************)
(* Properties of Query and Count (checked under SpecQuery).                *)
(***************************************************************************)
QueryDone == "Query" \in qdone
CountDone == "Count" \in qdone

\* books and constraints never change under SpecQuery, and every input has
\* exactly one state in which Count alone has returned: what a property says
\* of the whole set of possible results of an input is evaluated there, once
\* per input
OncePerInput == qdone = {"Count"}

IncludeAccepts(eb, cs) == Combine(cs.IncludeCombiner, cs.Includes, eb)
ExcludeAccepts(eb, cs) == Combine(cs.ExcludeCombiner, cs.Excludes, eb)

\* the candidacy rule as the specification states it
IsCandidate(eb, cs) ==
    /\ (cs.Includes = <<>> \/ IncludeAccepts(eb, cs))
    /\ ~(cs.Excludes # <<>> /\ ExcludeAccepts(eb, cs))

\* the candidates of a snapshot, in store order
RECURSIVE Candidates(_, _)
Candidates(bks, cs) ==
    IF bks = <<>> THEN <<>>
    ELSE IF IsCandidate(Head(bks), cs)
         THEN <<Head(bks)>> \o Candidates(Tail(bks), cs)
         ELSE Candidates(Tail(bks), cs)

NCandidates == Len(Candidates(books, constraints))

Unconstrained(cs) == [cs EXCEPT !.Includes = <<>>, !.Excludes = <<>>]

\* C4: Query and Count treat a book as a candidate iff (Includes is empty or
\* the include combiner accepts it) and not (Excludes is non-empty and the
\* exclude combiner accepts it): every book returned is such a candidate, a
\* book the exclude side accepts is never returned, the possible results are
\* those of the unconstrained query over the candidates alone, and Count
\* counts the candidates.
C4_CandidacyRule ==
    /\ QueryDone =>
         /\ \A i \in DOMAIN qstate.result :
               /\ IsCandidate(qstate.result[i], constraints)
               /\ ~(constraints.Excludes # <<>>
                      /\ ExcludeAccepts(qstate.result[i], constraints))
    /\ OncePerInput =>
         QueryResults(books, constraints)
           = QueryResults(Candidates(books, constraints),
                          Unconstrained(constraints))
    /\ CountDone => qcount = NCandidates
    /\ constraints.Includes = <<>> =>
         \A i \in DOMAIN books :
            IsCandidate(books[i], constraints)
              <=> ~(constraints.Excludes # <<>>
                      /\ ExcludeAccepts(books[i], constraints))

\* a query has returned books while the store holds a book that the include
\* side and the exclude side both accept
C4_Witness ==
    /\ QueryDone /\ CountDone
    /\ constraints.Includes # <<>> /\ constraints.Excludes # <<>>
    /\ qstate.result # <<>>
    /\ \E i \in DOMAIN books :
          /\ IncludeAccepts(books[i], constraints)
          /\ ExcludeAccepts(books[i], constraints)

\* C5: in paged mode Query with Page p and Limit L returns exactly the
\* candidates ranked p*L+1 .. (p+1)*L in store order (fewer only when the
\* candidates run out).
C5_PageWindow ==
    (QueryDone /\ ~constraints.Random) =>
       qstate.result =
          SubSeq(Candidates(books, constraints),
                 constraints.Page * constraints.Limit + 1,
                 Min((constraints.Page + 1) * constraints.Limit, NCandidates))

\* C6: in paged mode at page 0 Query returns at most Limit books, and for
\* every spec the number of books Query returns is at most Count on the same
\* snapshot.
C6_QueryBounds ==
    /\ (QueryDone /\ ~constraints.Random /\ constraints.Page = 0
          /\ constraints.Limit > 0)
         => Len(qstate.result) <= constraints.Limit
    /\ (QueryDone /\ CountDone) => Len(qstate.result) <= qcount

\* a page-0 query filled its page while more candidates remained
C6_Witness ==
    /\ QueryDone /\ CountDone
    /\ ~constraints.Random /\ constraints.Page = 0
    /\ Len(qstate.result) = constraints.Limit
    /\ qcount > constraints.Limit

\* C7: Count returns the number of candidates of the snapshot, and specs that
\* differ only in Limit, Page and Random have the same Count.
C7_CountIgnoresPaging ==
    /\ CountDone =>
         qcount = Cardinality({i \in DOMAIN books :
                                  IsCandidate(books[i], constraints)})
    /\ OncePerInput =>
         \A l \in 1..MaxLimit, p \in 0..MaxPage, r \in BOOLEAN :
            Count(books, [constraints EXCEPT !.Limit = l, !.Page = p,
                                             !.Random = r]) = qcount

\* Count returned more than Limit for a random spec on a later page
C7_Witness ==
    /\ CountDone
    /\ constraints.Random /\ constraints.Page > 0
    /\ qcount > constraints.Limit

NoRepeats(s) == \A i, j \in DOMAIN s : i # j => s[i] # s[j]

\* C8: in random mode Query scans the whole store and returns exactly
\* min(Limit, N) books, all of them candidates and no store entry twice;
\* every candidate occurs in some possible result; and the set of possible
\* results is the same for every Page.
C8_RandomMode ==
    constraints.Random =>
      /\ QueryDone =>
           /\ qstate.scanned = Len(books)
           /\ ~qstate.stop
           /\ Len(qstate.result) = Min(constraints.Limit, NCandidates)
           /\ \A i \in DOMAIN qstate.result :
                 IsCandidate(qstate.result[i], constraints)
           /\ Range(qstate.result) \subseteq Range(books)
           /\ NoRepeats(qstate.result)
      /\ OncePerInput =>
           /\ \A i \in DOMAIN books :
                 IsCandidate(books[i], constraints) =>
                    \E r \in QueryResults(books, constraints) :
                       books[i] \in Range(r)
           /\ \A p \in 0..MaxPage :
                 QueryResults(books, [constraints EXCEPT !.Page = p])
                   = QueryResults(books, constraints)

\* a random query on a later page replaced an early candidate by a later one
C8_Witness ==
    /\ QueryDone /\ constraints.Random /\ constraints.Page > 0
    /\ NCandidates > constraints.Limit
    /\ Len(qstate.result) = constraints.Limit
    /\ qstate.result # SubSeq(Candidates(books, constraints), 1,
                              constraints.Limit)

(***************************************************************************)
(* The distribution of a random-mode Query.  Each draw <<u, randomIndex>>   *)
(* made for the m-th candidate is one of m * Limit equally likely pairs,   *)
(* so every sequence of draws of a call is equally likely and the          *)
(* probability of an event is its number of draw sequences over the total. *)
(***************************************************************************)
\* for each position i of the store, the number of draw sequences from loop
\* state st at index k after which the result holds bks[i]
RECURSIVE PathsWith(_, _, _, _), PathsWithDraw(_, _, _, _, _)
PathsWith(bks, k, st, cs) ==
    IF k >= Len(bks) \/ st.stop
    THEN [i \in DOMAIN bks |-> IF bks[i] \in Range(st.result) THEN 1 ELSE 0]
    ELSE PathsWithDraw(bks, k, st, cs, NDraws(st, bks[k + 1], cs))

\* ... summed over the draws numbered 0 .. j-1 at index k
PathsWithDraw(bks, k, st, cs, j) ==
    IF j = 0 THEN [i \in DOMAIN bks |-> 0]
    ELSE LET rest == PathsWithDraw(bks, k, st, cs, j - 1)
             d    == Draw(j - 1, cs)
             this == PathsWith(bks, k + 1,
                               QueryIter(st, bks[k + 1], cs, d[1], d[2]), cs)
         IN [i \in DOMAIN bks |-> rest[i] + this[i]]

\* the number of all draw sequences of a call: the product of m * Limit over
\* the candidates m = Limit+1 .. n
RECURSIVE TotalPaths(_, _)
TotalPaths(n, limit) ==
    IF n <= limit THEN 1 ELSE n * limit * TotalPaths(n - 1, limit)

\* C9: random mode samples uniformly without replacement: every candidate is
\* in the result with the same probability, min(Limit, N) / N (Limit = 2 over
\* 4 candidates: 1/2 each), and a non-candidate with probability 0.
C9_UniformSample ==
    (OncePerInput /\ constraints.Random) =>
       LET with == PathsWith(books, 0, QueryStart, constraints)
           all  == TotalPaths(NCandidates, constraints.Limit)
       IN \A i \in DOMAIN books :
             IF IsCandidate(books[i], constraints)
             THEN with[i] * NCandidates
                    = Min(constraints.Limit, NCandidates) * all
             ELSE with[i] = 0

\* a random query with Limit 2 over 4 candidates returned the third and the
\* fourth of them
C9_Witness ==
    /\ QueryDone /\ CountDone /\ constraints.Random
    /\ constraints.Limit = MaxLimit /\ qcount = MaxLimit + 2
    /\ LET c == Candidates(books, constraints)
       IN Range(qstate.result) = {c[MaxLimit + 1], c[MaxLimit + 2]}

(***************************************************************************)
(* The RDF loader (pkg/rdf/filters.go).  A reader is the stream the loader *)
(* decodes: whether it is a tar archive, and its members; a member is an   *)
(* XML document (the sequence of its ebook elements), a document that      *)
(* xml.Decode rejects, or a tar header that tar.Reader.Next rejects.  A    *)
(* filter is kept as the data of its closure.  A MIME string is the        *)
(* sequence of its parts ("text/html; charset=utf-8" is <<"text/html",     *)
(* "; charset=utf-8">>), so that strings.HasPrefix is the prefix of a      *)
(* sequence.                                                               *)
(***************************************************************************)
HasPrefix(s, prefix) ==
    Len(prefix) <= Len(s) /\ SubSeq(s, 1, Len(prefix)) = prefix

\* the table of friendly format names: the two entries the model uses
ContentTypes ==
    [ctname \in {"epub", "html_text"} |->
        IF ctname = "epub" THEN <<"application/epub+zip">> ELSE <<"text/html">>]

LanguageFilter(languages) == [name |-> "LanguageFilter", args |-> languages]

ContentFilter(contentTypes) == [name |-> "ContentFilter", args |-> contentTypes]

\* the dummy filter NewLoader adds: func(*booktypes.EBook) bool { return true }
PassEverything == [name |-> "PassEverything", args |-> <<>>]

\* filt(&et) for an EBookFilter
ApplyEBookFilter(filt, e) ==
    IF filt.name = "LanguageFilter"
    THEN \E i \in DOMAIN filt.args : e.Language = filt.args[i]
    ELSE TRUE

\* filt(&file) for a PGFileFilter
ApplyPGFileFilter(filt, f) ==
    \E i \in DOMAIN filt.args :
       /\ filt.args[i] \in DOMAIN ContentTypes
       /\ \E j \in DOMAIN f.Formats :
             HasPrefix(f.Formats[j], ContentTypes[filt.args[i]])

EBookFilterOpt(f) == [opt |-> "EBookFilter", arg |-> f]

PGFileFilterOpt(f) == [opt |-> "PGFileFilter", arg |-> f]

LoadAtMostOpt(n) == [opt |-> "LoadAtMost", arg |-> n]

\* opt(loader)
ApplyOption(ldr, o) ==
    CASE o.opt = "EBookFilter" ->
            [ldr EXCEPT !.ebookFilters = Append(@, o.arg)]
      [] o.opt = "PGFileFilter" ->
            [ldr EXCEPT !.pgFileFilters = Append(@, o.arg)]
      [] o.opt = "LoadAtMost" ->
            [ldr EXCEPT !.loadOnly = o.arg]

RECURSIVE ApplyOptions(_, _, _)
ApplyOptions(ldr, options, i) ==
    IF i > Len(options) THEN ldr
    ELSE ApplyOptions(ApplyOption(ldr, options[i]), options, i + 1)

NewLoader(r, options) ==
    LET ldr == ApplyOptions([reader |-> r, ebookFilters |-> <<>>,
                             pgFileFilters |-> <<>>, loadOnly |-> 0],
                            options, 1)
    IN IF Len(ldr.ebookFilters) = 0
       THEN [ldr EXCEPT !.ebookFilters = <<PassEverything>>]
       ELSE ldr

\* xmlEbook.asEBook: the fields the loader and the store read; Files starts
\* empty
asEBook(x) == [ID |-> x.ID, Language |-> x.Language, Files |-> <<>>]

\* xmlFile.asFile
asFile(xf) == [Location |-> xf.About, Formats |-> xf.Formats]

\* eachfile: for _, xf := range data.EBooks[i].Formats: the file is appended
\* to et.Files unless a file filter returns false
RECURSIVE eachfile(_, _, _, _)
eachfile(r, formats, j, files) ==
    IF j > Len(formats) THEN files
    ELSE LET file == asFile(formats[j])
         IN IF \A k \in DOMAIN r.pgFileFilters :
                  ApplyPGFileFilter(r.pgFileFilters[k], file)
            THEN eachfile(r, formats, j + 1, Append(files, file))
            ELSE eachfile(r, formats, j + 1, files)

\* for _, filt := range r.ebookFilters: a filter that returns false only
\* skips its own iteration; the files are collected into et, and et appended
\* to ebooks, inside this loop, once for each filter that returns true
RECURSIVE eachFilter(_, _, _, _, _)
eachFilter(r, x, k, et, ebooks) ==
    IF k > Len(r.ebookFilters) THEN ebooks
    ELSE IF ~ApplyEBookFilter(r.ebookFilters[k], et)
         THEN eachFilter(r, x, k + 1, et, ebooks)
         ELSE LET et1 == [et EXCEPT
                            !.Files = eachfile(r, x.Formats, 1, et.Files)]
              IN eachFilter(r, x, k + 1, et1,
                            IF Len(et1.Files) # 0
                            THEN Append(ebooks, et1) ELSE ebooks)

\* for i := range data.EBooks
RECURSIVE eachEBook(_, _, _, _)
eachEBook(r, data, i, ebooks) ==
    IF i > Len(data) THEN ebooks
    ELSE eachEBook(r, data, i + 1,
                   eachFilter(r, data[i], 1, asEBook(data[i]), ebooks))

\* log.Fatal / log.Fatalf: the process exits, nothing is returned
Fatal(count) == [fatal |-> TRUE, ebooks |-> <<>>, count |-> count]

\* Loader.Load(rdr): a document that does not decode is log.Fatal(err)
Load(r, rdr) ==
    IF rdr.kind # "xml" THEN Fatal(0)
    ELSE [fatal |-> FALSE, ebooks |-> eachEBook(r, rdr.EBooks, 1, <<>>),
          count |-> 0]

\* Loader.LoadOne: r.reader is one document (an empty stream does not decode)
LoadOne(r) ==
    IF Len(r.reader.members) = 0 THEN Fatal(0)
    ELSE [Load(r, r.reader.members[1]) EXCEPT !.count = 1]

\* Loader.LoadTar: the loop over the members, from member m on
RECURSIVE LoadTarFrom(_, _, _, _)
LoadTarFrom(r, m, ebooks, count) ==
    IF m > Len(r.reader.members)
    THEN [fatal |-> FALSE, ebooks |-> ebooks, count |-> count]
    ELSE IF r.reader.members[m].kind = "badheader" THEN Fatal(count)
    ELSE LET newtexts == Load(r, r.reader.members[m])
             all      == ebooks \o newtexts.ebooks
         IN IF newtexts.fatal THEN Fatal(count)
            ELSE IF r.loadOnly > 0 /\ Len(all) >= r.loadOnly
                 THEN [fatal |-> FALSE, ebooks |-> all, count |-> count + 1]
                 ELSE LoadTarFrom(r, m + 1, all, count + 1)

LoadTar(r) == LoadTarFrom(r, 1, <<>>, 0)

\* the MIME strings of the files of the model
Epub == <<"application/epub+zip">>
Html == <<"text/html", "; charset=utf-8">>
Pdf == <<"application/pdf">>
Zip == <<"application/zip">>

\* an ebook element: files[i] is the format list of its i-th file
XmlEbook(id, lang, files) ==
    [ID |-> id, Language |-> lang,
     Formats |-> [i \in DOMAIN files |-> [About |-> <<id, i>>,
                                           Formats |-> files[i]]]]

XmlDoc(ebooks) == [kind |-> "xml", EBooks |-> ebooks]
BadXml == [kind |-> "badxml", EBooks |-> <<>>]
BadHeader == [kind |-> "badheader", EBooks |-> <<>>]

\* the documents archives are made of; the IDs of member number m start at
\* 10 * m
Documents(m) ==
    { XmlDoc(<<>>),
      XmlDoc(<<XmlEbook(10 * m + 1, "en", << <<Epub>> >>)>>),
      XmlDoc(<<XmlEbook(10 * m + 1, "fr", << <<Html>>, <<Epub, Zip>> >>),
               XmlEbook(10 * m + 2, "en", << <<Epub>> >>)>>),
      XmlDoc(<<XmlEbook(10 * m + 1, "en", << <<Pdf>> >>),
               XmlEbook(10 * m + 2, "en", << <<Epub, Zip>>, <<Pdf>> >>),
               XmlEbook(10 * m + 3, "en", << <<Html>> >>)>>) }

(***************************************************************************)
(* SpecRefresh: the invocations of load (service.go 52-129).  main starts  *)
(* the first one as a goroutine; each one acquires the body (the loop of   *)
(* SpecLoad, here one step), schedules the next invocation with            *)
(* time.AfterFunc, wraps the reader in the decompressors its name asks     *)
(* for, decodes it with a Loader and publishes the books with Update.      *)
(* resourcename is kept as the sequence of its dot suffixes.  There is no  *)
(* clock: no step of load has a bounded duration, so a timer that has been *)
(* set fires at any later moment.                                          *)
(***************************************************************************)
RefreshURLs ==
    { [scheme |-> sch, ext |-> e] :
        sch \in {"http", "file"},
        e \in { <<"tar", "bz2">>, <<"tar", "gz">>, <<"rdf">> } }

HasSuffix(name, suffix) == Len(name) > 0 /\ name[Len(name)] = suffix

StripSuffix(name) == SubSeq(name, 1, Len(name) - 1)

\* what the URL serves: a tar archive or one document, in a compressed
\* stream that is valid or not
RefreshArchives ==
    { <<d>> : d \in Documents(1) }
      \cup { <<d, BadXml>> : d \in Documents(1) }

Bodies(url) ==
    { [valid |-> v, members |-> a] :
        v \in IF Len(url.ext) > 1 THEN BOOLEAN ELSE {TRUE},
        a \in IF url.ext[1] = "tar" THEN RefreshArchives
              ELSE { <<d>> : d \in Documents(1) \cup {BadXml} } }

NewTask == [pc |-> "acquire"]

Started == Cardinality({t \in 1..MaxLoads : tasks[t].pc # "none"})

InitRefresh ==
    /\ books = <<>>
    /\ bookIDs = EmptyMap
    /\ constraints = NewConstraintSpec
    /\ qstate = QueryStart
    /\ qcount = 0
    /\ qdone = {}
    /\ StoreIdle
    /\ LoadIdle
    /\ config \in { [DefaultConfig EXCEPT !.URL = u] : u \in RefreshURLs }
    /\ tasks = [t \in 1..MaxLoads |-> NoTask]
    /\ timers = 0
    /\ process = "running"
    /\ published = <<>>
    /\ loader = NoCall
    /\ loaded = NoCall
    /\ values = <<>>
    /\ response = NoCall
    /\ UnitsIdle

notRefresh == <<constraints, qstate, qcount, qdone, svars, lvars,
                config, loader, loaded, values, response, uvars>>

\* main: go load(svc)
GoLoad ==
    /\ process = "running"
    /\ Started = 0
    /\ tasks' = [tasks EXCEPT ![1] = NewTask]
    /\ UNCHANGED <<books, bookIDs, timers, process, published, notRefresh>>

\* the acquire phase ends with a body: rdr = resp.Body, or rdr = f
AcquireOK(t) ==
    /\ process = "running"
    /\ tasks[t].pc = "acquire"
    /\ \E b \in Bodies(config.URL) :
          tasks' = [tasks EXCEPT ![t] =
                      [pc |-> "schedule", resourcename |-> config.URL.ext,
                       rdr |-> [nil |-> FALSE, err |-> FALSE,
                                valid |-> b.valid, members |-> b.members],
                       ebooks |-> <<>>]]
    /\ UNCHANGED <<books, bookIDs, timers, process, published, notRefresh>>

\* the acquire phase ends the process: resp.StatusCode on a nil resp, or
\* log.Fatalf("couldn't load file ...")
AcquireDies(t) ==
    /\ process = "running"
    /\ tasks[t].pc = "acquire"
    /\ process' = IF config.URL.scheme = "http" THEN "panic" ELSE "exited"
    /\ UNCHANGED <<books, bookIDs, tasks, timers, published, notRefresh>>

\* time.AfterFunc(svc.Config.RefreshTime, func() { load(svc) })
Schedule(t) ==
    /\ process = "running"
    /\ tasks[t].pc = "schedule"
    /\ timers' = timers + 1
    /\ tasks' = [tasks EXCEPT ![t].pc = "decompress"]
    /\ UNCHANGED <<books, bookIDs, process, published, notRefresh>>

\* bzip2.NewReader(rdr) never fails: a stream that is no bzip2 fails when it
\* is read.  gzip.NewReader(rdr) reads the header: when it fails, the error
\* is logged and rdr is left holding the nil *gzip.Reader it returned
Decompress(t) ==
    /\ process = "running"
    /\ tasks[t].pc = "decompress"
    /\ LET n0 == tasks[t].resourcename
           r0 == tasks[t].rdr
           bz == HasSuffix(n0, "bz2")
           r1 == IF bz THEN [r0 EXCEPT !.err = ~r0.valid] ELSE r0
           n1 == IF bz THEN StripSuffix(n0) ELSE n0
           gz == HasSuffix(n1, "gz")
           r2 == IF gz /\ (r1.err \/ ~r1.valid)
                 THEN [r1 EXCEPT !.nil = TRUE] ELSE r1
           n2 == IF gz THEN StripSuffix(n1) ELSE n1
       IN tasks' = [tasks EXCEPT ![t].pc = "decode",
                                 ![t].resourcename = n2, ![t].rdr = r2]
    /\ UNCHANGED <<books, bookIDs, timers, process, published, notRefresh>>

\* the first member of a stream whose reads fail
Unreadable(tar) == IF tar THEN <<BadHeader>> ELSE <<BadXml>>

\* r := books.NewLoader(rdr, ...) and what r.LoadTar / r.LoadOne decode
Decoded(t) ==
    LET tar == HasSuffix(tasks[t].resourcename, "tar")
        rd  == tasks[t].rdr
        r   == NewLoader([tar |-> tar,
                          members |-> IF rd.err THEN Unreadable(tar)
                                      ELSE rd.members],
                         <<EBookFilterOpt(LanguageFilter(config.Languages)),
                           PGFileFilterOpt(ContentFilter(config.Formats)),
                           LoadAtMostOpt(config.LoadAtMost)>>)
    IN IF tar THEN LoadTar(r) ELSE LoadOne(r)

\* LoadTar / LoadOne up to bookdata.Update
DecodeOK(t) ==
    /\ process = "running"
    /\ tasks[t].pc = "decode"
    /\ ~tasks[t].rdr.nil
    /\ ~Decoded(t).fatal
    /\ tasks' = [tasks EXCEPT ![t].pc = "publish",
                              ![t].ebooks = Decoded(t).ebooks]
    /\ UNCHANGED <<books, bookIDs, timers, process, published, notRefresh>>

\* reading through the nil *gzip.Reader panics; a member that does not
\* decode, or a read error, is log.Fatal
DecodeDies(t) ==
    /\ process = "running"
    /\ tasks[t].pc = "decode"
    /\ tasks[t].rdr.nil \/ Decoded(t).fatal
    /\ process' = IF tasks[t].rdr.nil THEN "panic" ELSE "exited"
    /\ UNCHANGED <<books, bookIDs, tasks, timers, published, notRefresh>>

\* Update that leaves the invocation about to call Update once more
PublishAgain(t) ==
    /\ process = "running"
    /\ tasks[t].pc = "publish"
    /\ books' = tasks[t].ebooks
    /\ bookIDs' = updateIDs(tasks[t].ebooks, bookIDs, 0)
    /\ published' = Append(published, t)
    /\ UNCHANGED <<tasks, timers, process, notRefresh>>

\* bookdata.Update(ebooks), under the write lock; then load returns
Publish(t) ==
    /\ process = "running"
    /\ tasks[t].pc = "publish"
    /\ books' = tasks[t].ebooks
    /\ bookIDs' = updateIDs(tasks[t].ebooks, bookIDs, 0)
    /\ published' = Append(published, t)
    /\ tasks' = [tasks EXCEPT ![t].pc = "done"]
    /\ UNCHANGED <<timers, process, notRefresh>>

\* a timer fires: func() { load(svc) } runs in its own goroutine
TimerFire ==
    /\ process = "running"
    /\ timers > 0
    /\ Started < MaxLoads
    /\ timers' = timers - 1
    /\ tasks' = [tasks EXCEPT ![Started + 1] = NewTask]
    /\ UNCHANGED <<books, bookIDs, process, published, notRefresh>>

NextRefresh ==
    \/ GoLoad
    \/ TimerFire
    \/ \E t \in 1..MaxLoads :
          \/ AcquireOK(t)
          \/ AcquireDies(t)
          \/ Schedule(t)
          \/ Decompress(t)
          \/ DecodeOK(t)
          \/ DecodeDies(t)
          \/ Publish(t)

SpecRefresh == InitRefresh /\ [][NextRefresh]_vars

(***************************************************************************)
(* Properties of the refresh loop (checked under SpecRefresh).             *)
(***************************************************************************)
\* the invocation has set the timer of the next one
Scheduled(t) == tasks[t].pc \in {"decompress", "decode", "publish", "done"}

\* the invocation is acquiring, decoding or publishing
InFlight(t) ==
    tasks[t].pc \in {"acquire", "schedule", "decompress", "decode", "publish"}

\* C11: once an acquire has succeeded the next refresh is scheduled before
\* decoding starts, and nothing that happens while decompressing or decoding
\* loses it: from then on the next invocation has started, or its timer is
\* pending in a process that is still running (and so will fire).
C11_RefreshOutlivesDecode ==
    \A t \in 1..MaxLoads :
       Scheduled(t) =>
          \/ t < MaxLoads /\ tasks[t + 1].pc # "none"
          \/ timers > 0 /\ process = "running"

\* C12: at most one invocation of load is in flight at any time, and the
\* invocations publish in the order they were started.
C12_OneRefreshInFlight ==
    /\ process = "running" =>
          Cardinality({t \in 1..MaxLoads : InFlight(t)}) <= 1
    /\ \A i, j \in DOMAIN published : i < j => published[i] < published[j]

\* the dataset the store holds between two Updates: that of the last
\* invocation that published, or none before the first
PreviousDataset ==
    IF published = <<>> THEN <<>>
    ELSE tasks[published[Len(published)]].ebooks

MaxMembers == 2     \* longest archive drawn
MaxLoadOnly == 2    \* largest load cap drawn

MembersAt(m) == Documents(m) \cup {BadXml, BadHeader}

LoaderArchives ==
    UNION { { a \in [1..n -> UNION { MembersAt(m) : m \in 1..n }] :
                \A m \in 1..n : a[m] \in MembersAt(m) }
            : n \in 0..MaxMembers }

LoaderReaders ==
    { [tar |-> TRUE, members |-> a] : a \in LoaderArchives }
      \cup { [tar |-> FALSE, members |-> <<d>>] :
               d \in Documents(1) \cup {BadXml} }
      \cup { [tar |-> FALSE, members |-> <<>>] }

\* the options given to NewLoader besides the cap: no filter; the filters
\* of load; two ebook filters an "en" book passes; two ebook filters no book
\* passes both of; two file filters
LoaderOptionLists ==
    { <<>>,
      <<EBookFilterOpt(LanguageFilter(<<"en">>)),
        PGFileFilterOpt(ContentFilter(<<"epub", "html_text">>))>>,
      <<EBookFilterOpt(LanguageFilter(<<"en">>)),
        EBookFilterOpt(LanguageFilter(<<"en", "fr">>)),
        PGFileFilterOpt(ContentFilter(<<"epub">>))>>,
      <<EBookFilterOpt(LanguageFilter(<<"fr">>)),
        EBookFilterOpt(LanguageFilter(<<"en">>))>>,
      <<PGFileFilterOpt(ContentFilter(<<"epub", "html_text">>)),
        PGFileFilterOpt(ContentFilter(<<"html_text", "mobi">>))>> }

InitLoader ==
    /\ books = <<>>
    /\ bookIDs = EmptyMap
    /\ constraints = NewConstraintSpec
    /\ qstate = QueryStart
    /\ qcount = 0
    /\ qdone = {}
    /\ StoreIdle
    /\ LoadIdle
    /\ config = DefaultConfig
    /\ tasks = [t \in 1..MaxLoads |-> NoTask]
    /\ timers = 0
    /\ process = "running"
    /\ published = <<>>
    /\ loader \in { NewLoader(rd, opts \o <<LoadAtMostOpt(n)>>) :
                      rd \in LoaderReaders, opts \in LoaderOptionLists,
                      n \in 0..MaxLoadOnly }
    /\ loaded = NoCall
    /\ values = <<>>
    /\ response = NoCall
    /\ UnitsIdle

notLoader == <<books, bookIDs, constraints, qstate, qcount, qdone, svars,
               lvars, config, tasks, timers, published, loader, values,
               response, uvars>>

\* what a call returned; after log.Fatal the process has exited
Returned(name, res) ==
    /\ loaded' = [name |-> name, fatal |-> res.fatal,
                  ebooks |-> res.ebooks, count |-> res.count]
    /\ process' = IF res.fatal THEN "exited" ELSE process

DoLoadTar ==
    /\ loaded = NoCall
    /\ loader.reader.tar
    /\ Returned("LoadTar", LoadTar(loader))
    /\ UNCHANGED notLoader

DoLoadOne ==
    /\ loaded = NoCall
    /\ ~loader.reader.tar
    /\ Returned("LoadOne", LoadOne(loader))
    /\ UNCHANGED notLoader

NextLoader == DoLoadTar \/ DoLoadOne

SpecLoader == InitLoader /\ [][NextLoader]_vars

(***************************************************************************)
(* Properties of the loader (checked under SpecLoader).                    *)
(***************************************************************************)
\* the members of the reader that are well-formed documents, and the books
\* the loader keeps of them
WellFormed(m) == loader.reader.members[m].kind = "xml"

RECURSIVE WellFormedBooks(_)
WellFormedBooks(m) ==
    IF m > Len(loader.reader.members) THEN <<>>
    ELSE (IF WellFormed(m)
          THEN Load(loader, loader.reader.members[m]).ebooks ELSE <<>>)
         \o WellFormedBooks(m + 1)

\* C13: in tar mode a member whose XML does not decode contributes no books
\* and is skipped: the load goes on with the following members, returns the
\* books of all well-formed members, and the process keeps running.
C13_BadMemberSkipped ==
    ( /\ loaded # NoCall
      /\ loader.reader.tar
      /\ loader.loadOnly = 0
      /\ \A m \in DOMAIN loader.reader.members :
            loader.reader.members[m].kind # "badheader" )
    => /\ process = "running"
       /\ ~loaded.fatal
       /\ loaded.ebooks = WellFormedBooks(1)

\* the ebook elements of the well-formed members
SourceRecords ==
    UNION { Range(loader.reader.members[m].EBooks) :
              m \in { k \in DOMAIN loader.reader.members : WellFormed(k) } }

PassesAllFilters(x) ==
    \A k \in DOMAIN loader.ebookFilters :
       ApplyEBookFilter(loader.ebookFilters[k], asEBook(x))

HasSurvivingFile(x) ==
    \E j \in DOMAIN x.Formats :
       \A k \in DOMAIN loader.pgFileFilters :
          ApplyPGFileFilter(loader.pgFileFilters[k], asFile(x.Formats[j]))

\* how often the record with this ID is in the books returned
Emitted(id) ==
    Cardinality({ i \in DOMAIN loaded.ebooks : loaded.ebooks[i].ID = id })

\* C14: whatever the list of ebook filters (none, one or several), a record
\* is emitted iff every ebook filter returns true for it and at least one of
\* its files passes the file filters, and it is emitted at most once.
C14_EmittedIffAllFiltersPass ==
    (loaded # NoCall /\ ~loaded.fatal /\ loader.loadOnly = 0) =>
       \A x \in SourceRecords :
          Emitted(x.ID)
            = IF PassesAllFilters(x) /\ HasSurvivingFile(x) THEN 1 ELSE 0

\* C15: with a load cap N > 0, LoadTar and LoadOne return at most N books.
C15_LoadCap ==
    (loaded # NoCall /\ ~loaded.fatal /\ loader.loadOnly > 0) =>
       Len(loaded.ebooks) <= loader.loadOnly

\* the files of the record that every file filter passes, in source order
SurvivingFiles(x) ==
    LET Passes(xf) == \A k \in DOMAIN loader.pgFileFilters :
                         ApplyPGFileFilter(loader.pgFileFilters[k], asFile(xf))
        kept == SelectSeq(x.Formats, Passes)
    IN [j \in DOMAIN kept |-> asFile(kept[j])]

\* C24: every book the loader emits has a non-empty Files list, made of
\* exactly the files of its source record that pass every file filter, each
\* once and in source order.
C24_FilesOfEmittedBooks ==
    (loaded # NoCall /\ ~loaded.fatal) =>
       \A i \in DOMAIN loaded.ebooks :
          /\ loaded.ebooks[i].Files # <<>>
          /\ \E x \in SourceRecords :
                /\ x.ID = loaded.ebooks[i].ID
                /\ loaded.ebooks[i].Files = SurvivingFiles(x)

(***************************************************************************)
(* The request adapter: ConstraintFromText (pkg/books/constraints.go) and  *)
(* buildConstraints, bookQuery, bookCount (handlers.go).                   *)
(***************************************************************************)
\* the parameter names the code compares with, and "foo", a name it does
\* not know
Name ==
    [ or |-> <<"o", "r">>,
      and |-> <<"a", "n", "d">>,
      limit |-> <<"l", "i", "m", "i", "t">>,
      lim |-> <<"l", "i", "m">>,
      page |-> <<"p", "a", "g", "e">>,
      pg |-> <<"p", "g">>,
      random |-> <<"r", "a", "n", "d", "o", "m">>,
      rand |-> <<"r", "a", "n", "d">>,
      author |-> <<"a", "u", "t", "h", "o", "r">>,
      auth |-> <<"a", "u", "t", "h">>,
      illustrator |-> <<"i", "l", "l", "u", "s", "t", "r", "a", "t", "o", "r">>,
      ill |-> <<"i", "l", "l">>,
      creator |-> <<"c", "r", "e", "a", "t", "o", "r">>,
      cre |-> <<"c", "r", "e">>,
      title |-> <<"t", "i", "t", "l", "e">>,
      subject |-> <<"s", "u", "b", "j", "e", "c", "t">>,
      subj |-> <<"s", "u", "b", "j">>,
      topic |-> <<"t", "o", "p", "i", "c">>,
      top |-> <<"t", "o", "p">>,
      type |-> <<"t", "y", "p", "e">>,
      typ |-> <<"t", "y", "p">>,
      any |-> <<"a", "n", "y">>,
      language |-> <<"l", "a", "n", "g", "u", "a", "g", "e">>,
      lang |-> <<"l", "a", "n", "g">>,
      issued |-> <<"i", "s", "s", "u", "e", "d">>,
      iss |-> <<"i", "s", "s">>,
      copyright |-> <<"c", "o", "p", "y", "r", "i", "g", "h", "t">>,
      cop |-> <<"c", "o", "p">>,
      copr |-> <<"c", "o", "p", "r">>,
      foo |-> <<"f", "o", "o">> ]

\* the loop that takes the leading - and ~ off the name
RECURSIVE namePrefix(_, _, _)
namePrefix(name, exclude, useRegexp) ==
    IF Len(name) > 0 /\ name[1] = "-" THEN namePrefix(Tail(name), TRUE, useRegexp)
    ELSE IF Len(name) > 0 /\ name[1] = "~" THEN namePrefix(Tail(name), exclude, TRUE)
    ELSE [name |-> name, exclude |-> exclude, useRegexp |-> useRegexp]

\* the names whose functors match words or patterns of text fields; the
\* functor is kept as the name and the value (it is never applied)
TextNames ==
    { Name.author, Name.auth, Name.illustrator, Name.ill, Name.creator,
      Name.cre, Name.title, Name.subject, Name.subj, Name.topic, Name.top,
      Name.type, Name.typ, Name.any }

\* the date range of "issued" and "copyright": splits := strings.Split(value, "-")
rangeFunctor(field, value) ==
    LET splits == Split(value, "-")
    IN IF Len(splits) = 1
       THEN [name |-> field, value |-> splits[1], cmp |-> "yearEQ"]
       ELSE IF Len(splits) = 2
            THEN [name |-> "And",
                  cfs |-> <<[name |-> field, value |-> splits[1], cmp |-> "yearGE"],
                            [name |-> field, value |-> splits[2], cmp |-> "yearLE"]>>]
            ELSE [name |-> "nilFunctor"]

\* ConstraintFromText(name, value): the functor, whether it excludes, and
\* whether an error is returned (the error of a glob that does not compile
\* is not modelled: no name of the model starts with ~)
ConstraintFromText(name0, value0) ==
    LET p     == namePrefix(ToLower(name0), FALSE, FALSE)
        name  == p.name
        value == ToLower(value0)
        ok(f) == [functor |-> f, exclude |-> p.exclude, err |-> FALSE]
    IN CASE name \in TextNames ->
               ok([name |-> "text", field |-> name, value |-> value,
                   useRegexp |-> p.useRegexp])
         [] name \in {Name.language, Name.lang} ->
               ok(LangFunctor(Split(value, ".")))
         [] name \in {Name.issued, Name.iss} ->
               ok(rangeFunctor("issued", value))
         [] name \in {Name.copyright, Name.cop, Name.copr} ->
               ok(rangeFunctor("copyright", value))
         [] OTHER ->
               [functor |-> [name |-> "nilFunctor"], exclude |-> FALSE,
                err |-> TRUE]

\* echo.NewHTTPError(http.StatusBadRequest, message)
BadRequest(message) == [err |-> TRUE, status |-> 400, message |-> message]

\* a limit that is taken whatever MaxLimit is
limitAcceptedAboveMax(n, cfg) == n > 0

\* if n > 0 && n <= svc.Config.MaxLimit
limitAccepted(n, cfg) == n > 0 /\ n <= cfg.MaxLimit

\* the default case: a constraint made of the words of the value
wordsConstraint(k, v, cs) ==
    LET words == GetWords(v)
        cts   == [j \in DOMAIN words |-> ConstraintFromText(k, words[j])]
    IN IF Len(words) = 0 THEN BadRequest("invalid search string")
       ELSE IF \E j \in DOMAIN words : cts[j].err
            THEN BadRequest("constraint error")
            ELSE LET constraint ==
                        IF Len(words) = 1 THEN cts[1].functor
                        ELSE [name |-> "And",
                              cfs |-> [j \in DOMAIN words |-> cts[j].functor]]
                 IN [err |-> FALSE,
                     constraints |->
                        IF cts[Len(words)].exclude
                        THEN [cs EXCEPT !.Excludes = Append(@, constraint)]
                        ELSE [cs EXCEPT !.Includes = Append(@, constraint)]]

\* one iteration of the loops over values: the switch on the key k
buildConstraint(cfg, k, v, cs) ==
    LET set(c) == [err |-> FALSE, constraints |-> c]
    IN CASE k = Name.or -> set([cs EXCEPT !.IncludeCombiner = "Or"])
         [] k = Name.and -> set([cs EXCEPT !.IncludeCombiner = "And"])
         [] k = <<"-">> \o Name.or ->
               set([cs EXCEPT !.ExcludeCombiner = "Or"])
         [] k = <<"-">> \o Name.and ->
               set([cs EXCEPT !.ExcludeCombiner = "And"])
         [] k \in {Name.limit, Name.lim} ->
               IF limitAccepted(Atoi(v).n, cfg)
               THEN set([cs EXCEPT !.Limit = Atoi(v).n])
               ELSE BadRequest("limit must be >0 and <=MaxLimit")
         [] k \in {Name.page, Name.pg} ->
               IF Atoi(v).err \/ Atoi(v).n < 0
               THEN BadRequest("page must be numeric and >0")
               ELSE set([cs EXCEPT !.Page = Atoi(v).n])
         [] k \in {Name.random, Name.rand} ->
               set([cs EXCEPT !.Random = TRUE])
         [] OTHER -> wordsConstraint(k, v, cs)

\* for k, vals := range values { for _, v := range vals { ... } }: the first
\* error is returned
RECURSIVE buildConstraintsFrom(_, _, _, _)
buildConstraintsFrom(cfg, vals, i, cs) ==
    IF i > Len(vals) THEN [err |-> FALSE, constraints |-> cs]
    ELSE LET r == buildConstraint(cfg, vals[i][1], vals[i][2], cs)
         IN IF r.err THEN r
            ELSE buildConstraintsFrom(cfg, vals, i + 1, r.constraints)

buildConstraints(cfg, vals) ==
    buildConstraintsFrom(cfg, vals, 1, NewConstraintSpec)

(***************************************************************************)
(* SpecAdapter: one request, drawn from a bounded set, handled by          *)
(* bookQuery or by bookCount on a store that holds the catalog.  values is *)
(* the url.Values as the loops of buildConstraints meet it: a sequence of  *)
(* <<key, value>>, the values of one key next to each other, the keys in   *)
(* any order (the iteration order of a map).                               *)
(***************************************************************************)
MaxParams == 2     \* most parameters of a request

\* an EBook with the fields the constraints of the model read
CatalogBook(id, lang, issued, copyright) ==
    [ID |-> id, Language |-> lang, Issued |-> issued,
     CopyrightDates |-> copyright]

Catalog ==
    << CatalogBook(1, <<"e", "n">>, Date(2005, 3, 1), <<>>),
       CatalogBook(2, <<"f", "r">>, Date(1980, 6, 15),
                   <<Date(1975, 0, 0), Date(2010, 0, 0)>>),
       CatalogBook(3, <<"e", "n">>, Date(1979, 12, 31), <<Date(1990, 0, 0)>>),
       CatalogBook(4, <<"d", "e">>, Date(2000, 1, 1), <<>>) >>

Params ==
    { <<Name.limit, <<"2">>>>,
      <<Name.limit, <<"5">>>>,
      <<Name.limit, <<"0">>>>,
      <<Name.limit, <<"-", "1">>>>,
      <<Name.limit, <<"x", "1">>>>,
      <<Name.limit, <<"1", "5", "0">>>>,
      <<Name.lim, <<>>>>,
      <<Name.page, <<"1">>>>,
      <<Name.page, <<"-", "1">>>>,
      <<Name.pg, <<"x">>>>,
      <<Name.pg, <<"0">>>>,
      <<Name.random, <<>>>>,
      <<Name.or, <<>>>>,
      <<<<"-">> \o Name.and, <<>>>>,
      <<Name.language, <<"e", "n", ".", "f", "r">>>>,
      <<Name.language, <<"E", "N">>>>,
      <<<<"-">> \o Name.lang, <<"f", "r">>>>,
      <<Name.language, <<>>>>,
      <<Name.lang, <<"!", "!">>>>,
      <<Name.issued, <<"1", "9", "8", "0", "-", "2", "0", "0", "0">>>>,
      <<Name.issued, <<"1", "9", "8", "0", "-">>>>,
      <<Name.iss, <<"-", "1", "9", "8", "0">>>>,
      <<Name.issued, <<"2", "0", "0", "5">>>>,
      <<Name.copyright, <<"1", "9", "8", "0", "-", "2", "0", "0", "0">>>>,
      <<Name.foo, <<"e", "n">>>>,
      <<Name.foo, <<>>>> }

Requests ==
    UNION { { vs \in [1..n -> Params] :
                \A i, j \in 1..n :
                   (i < j /\ vs[i][1] = vs[j][1]) =>
                      \A l \in i..j : vs[l][1] = vs[i][1] }
            : n \in 0..MaxParams }

\* MAXLIMIT below, at and above the Limit of NewConstraintSpec
ConfigMaxLimits == {2, DefaultLimit, DefaultMaxLimit}

InitAdapter ==
    /\ books = Catalog
    /\ bookIDs = updateIDs(books, EmptyMap, 0)
    /\ constraints = NewConstraintSpec
    /\ qstate = QueryStart
    /\ qcount = 0
    /\ qdone = {}
    /\ StoreIdle
    /\ LoadIdle
    /\ config \in { [DefaultConfig EXCEPT !.MaxLimit = m] : m \in ConfigMaxLimits }
    /\ tasks = [t \in 1..MaxLoads |-> NoTask]
    /\ timers = 0
    /\ process = "running"
    /\ published = <<>>
    /\ loader = NoCall
    /\ loaded = NoCall
    /\ values \in Requests
    /\ response = NoCall
    /\ UnitsIdle

notAdapter == <<books, bookIDs, svars, lvars, config, tasks, timers, process,
                published, loader, loaded, values, uvars>>

\* bookQuery: an error of buildConstraints is returned before the store is
\* touched; otherwise c.JSON(http.StatusOK, svc.Books.Query(constraints))
bookQuery ==
    /\ response = NoCall
    /\ LET r == buildConstraints(config, values)
       IN IF r.err
          THEN /\ response' = [status |-> r.status, message |-> r.message]
               /\ UNCHANGED <<constraints, qstate, qdone>>
          ELSE /\ constraints' = r.constraints
               /\ \E st \in Query(books, r.constraints) :
                     /\ qstate' = st
                     /\ response' = [status |-> 200, body |-> st.result]
               /\ qdone' = qdone \cup {"Query"}
    /\ UNCHANGED <<qcount, notAdapter>>

\* bookCount: c.JSON(http.StatusOK, svc.Books.Count(constraints))
bookCount ==
    /\ response = NoCall
    /\ LET r == buildConstraints(config, values)
       IN IF r.err
          THEN /\ response' = [status |-> r.status, message |-> r.message]
               /\ UNCHANGED <<constraints, qcount, qdone>>
          ELSE /\ constraints' = r.constraints
               /\ qcount' = Count(books, r.constraints)
               /\ response' = [status |-> 200,
                               body |-> Count(books, r.constraints)]
               /\ qdone' = qdone \cup {"Count"}
    /\ UNCHANGED <<qstate, notAdapter>>

NextAdapter == bookQuery \/ bookCount

SpecAdapter == InitAdapter /\ [][NextAdapter]_vars

(***************************************************************************)
(* Properties of the request adapter (checked under SpecAdapter).  What a  *)
(* value of the model means is given by tables, not by the code's parsing. *)
(***************************************************************************)
Handled == response # NoCall

\* the values of the model that are decimal numbers, and the numbers
Numbers ==
    { <<<<"2">>, 2>>, <<<<"5">>, 5>>, <<<<"0">>, 0>>, <<<<"1">>, 1>>,
      <<<<"-", "1">>, 0 - 1>>, <<<<"1", "5", "0">>, 150>> }

IsNumeric(v) == \E e \in Numbers : e[1] = v

NumberOf(v) == (CHOOSE e \in Numbers : e[1] = v)[2]

\* the parameter names that are no constraint names
SpecialKeys ==
    { Name.or, Name.and, <<"-">> \o Name.or, <<"-">> \o Name.and,
      Name.limit, Name.lim, Name.page, Name.pg, Name.random, Name.rand }

ConstraintNames ==
    TextNames \cup { Name.language, Name.lang, Name.issued, Name.iss,
                     Name.copyright, Name.cop, Name.copr }

\* a parameter the request is to be rejected for
BadParam(kv) ==
    \/ /\ kv[1] \in {Name.limit, Name.lim}
       /\ \/ ~IsNumeric(kv[2])
          \/ NumberOf(kv[2]) <= 0
          \/ NumberOf(kv[2]) > config.MaxLimit
    \/ /\ kv[1] \in {Name.page, Name.pg}
       /\ ~IsNumeric(kv[2]) \/ NumberOf(kv[2]) < 0
    \/ /\ kv[1] \notin SpecialKeys
       /\ kv[1] \notin ConstraintNames
       /\ kv[1] \notin { <<"-">> \o n : n \in ConstraintNames }

\* C16: a request with a limit that is not numeric, <= 0 or > MaxLimit, with
\* a page that is not numeric or < 0, or with an unknown constraint name is
\* answered 400; and a request answered 400 has made no Query and no Count.
C16_BadRequestsRejected ==
    Handled =>
       /\ (\E i \in DOMAIN values : BadParam(values[i]))
             => response.status = 400
       /\ response.status = 400 =>
             /\ qdone = {}
             /\ qstate = QueryStart
             /\ qcount = 0
             /\ constraints = NewConstraintSpec

\* limit=150 under the default MAXLIMIT of 100 was answered 400 and the store
\* was not queried
C16_Witness ==
    /\ Handled
    /\ config.MaxLimit = DefaultMaxLimit
    /\ \E i \in DOMAIN values : values[i] = <<Name.limit, <<"1", "5", "0">>>>
    /\ response.status = 400
    /\ qdone = {}

\* C17: every ConstraintSpec buildConstraints returns has 0 < Limit <=
\* MaxLimit, with or without a limit parameter and whatever MaxLimit >= 1 is
\* configured, so no answer of bookQuery holds more than MaxLimit books.
C17_LimitWithinMaxLimit ==
    (Handled /\ response.status = 200) =>
       /\ constraints.Limit > 0
       /\ constraints.Limit <= config.MaxLimit
       /\ "Query" \in qdone => Len(response.body) <= config.MaxLimit

\* the date ranges of the model: the value, and the years it stands for
DateRanges ==
    { [value |-> <<"1", "9", "8", "0", "-", "2", "0", "0", "0">>, lo |-> 1980, hi |-> 2000],
      [value |-> <<"1", "9", "8", "0", "-">>, lo |-> 1980, hi |-> 9999],
      [value |-> <<"-", "1", "9", "8", "0">>, lo |-> 0, hi |-> 1980] }

InRange(d, e) == d.Year >= e.lo /\ d.Year <= e.hi

\* the book has a date of the named kind in the range
DateInRange(k, eb, e) ==
    IF k \in {Name.issued, Name.iss} THEN InRange(eb.Issued, e)
    ELSE \E i \in DOMAIN eb.CopyrightDates : InRange(eb.CopyrightDates[i], e)

\* C18: issued=lo-hi (likewise copyright) selects the books whose date is
\* >= lo and <= hi, an empty lo or hi leaving that side open; so does the
\* functor ConstraintFromText makes of the value, and so does the
\* ConstraintSpec buildConstraints makes of the parameter.
C18_DateRange ==
    \A e \in DateRanges :
       \A k \in {Name.issued, Name.iss, Name.copyright} :
          (Handled /\ values = << <<k, e.value>> >>) =>
             /\ \A i \in DOMAIN books :
                   ApplyFunctor(ConstraintFromText(k, e.value).functor, books[i])
                     <=> DateInRange(k, books[i], e)
             /\ response.status = 200
             /\ \A i \in DOMAIN books :
                   QueryMatches(books[i], constraints)
                     <=> DateInRange(k, books[i], e)

\* the language lists of the model: the value, and the codes it lists
LanguageLists ==
    { [value |-> <<"e", "n", ".", "f", "r">>, codes |-> {<<"e", "n">>, <<"f", "r">>}] }

\* C19: language=en.fr matches exactly the books whose Language is en or
\* fr; so does the functor ConstraintFromText makes of the value, and so
\* does the ConstraintSpec buildConstraints makes of the parameter.
C19_LanguageList ==
    \A e \in LanguageLists :
       (Handled /\ values = << <<Name.language, e.value>> >>) =>
          /\ \A i \in DOMAIN books :
                ApplyFunctor(ConstraintFromText(Name.language, e.value).functor,
                             books[i])
                  <=> books[i].Language \in e.codes
          /\ response.status = 200
          /\ \A i \in DOMAIN books :
                QueryMatches(books[i], constraints)
                  <=> books[i].Language \in e.codes

\* no character of the value is in [a-z0-9_] after lowercasing
NoWordChar(v) == \A i \in DOMAIN v : ToLower(v)[i] \notin WordChars

\* C20: GetWords returns non-empty tokens only, so a constraint value with
\* no character of [a-z0-9_] has zero tokens and the request is answered
\* 400 "invalid search string".
C20_NoWordsRejected ==
    (Handled /\ Len(values) = 1 /\ values[1][1] \notin SpecialKeys) =>
       LET v == values[1][2]
       IN /\ \A j \in DOMAIN GetWords(v) : GetWords(v)[j] # <<>>
          /\ NoWordChar(v) =>
                /\ GetWords(v) = <<>>
                /\ response.status = 400
                /\ response.message = "invalid search string"

(***************************************************************************)
(* SpecUnits: one function of the packages applied to arguments drawn from *)
(* a bounded set.  input is the call, output what it returned.             *)
(***************************************************************************)
\* And(cfs...)(eb) and Or(cfs...)(eb): up to three language functors and
\* nilFunctor, in every order
CombinerFunctors ==
    { LangFunctor(<<"en">>), LangFunctor(<<"fr">>), LangFunctor(<<"en", "fr">>),
      [name |-> "nilFunctor"] }

MaxFunctors == 3   \* most arguments given to And and Or

CombinerInputs ==
    { [fn |-> f, cfs |-> cfs, eb |-> EBook(1, l)] :
        f \in {"And", "Or"},
        cfs \in UNION { [1..n -> CombinerFunctors] : n \in 0..MaxFunctors },
        l \in Languages \cup {"de"} }

\* d.CompareTo(other): zero, year-only and full dates, with a month or a
\* day alone as well
CompareDates ==
    { Date(y, m, d) : y \in {0, 1999, 2000}, m \in {0, 5, 6}, d \in {0, 3, 4} }

CompareToInputs ==
    { [fn |-> "CompareTo", d |-> a, other |-> b] : a, b \in CompareDates }

\* ParseDate(s): no date, years alone, dates with one and two digit months
\* and days, with zeros, in a text, and next to word characters
ParseDateInputs ==
    { [fn |-> "ParseDate", s |-> s] : s \in
    { <<>>,
      <<"2", "0", "0", "0">>,
      <<"0", "9", "9", "9">>,
      <<"0", "0", "0", "0">>,
      <<"1", "2", "3", "4", "5">>,
      <<"2", "0", "0", "0", "-", "0", "5", "-", "0", "7">>,
      <<"2", "0", "0", "0", "-", "5", "-", "7">>,
      <<"1", "9", "9", "9", "/", "1", "2", "/", "3", "1">>,
      <<"2", "0", "0", "0", ".", "1", "3", ".", "4", "5">>,
      <<"2", "0", "0", "0", "-", "0", "0", "-", "0", "0">>,
      <<"2", "0", "0", "0", "-", "0", "5", "-", "0", "0">>,
      <<"2", "0", "0", "0", "-", "0", "-", "7">>,
      <<"0", "0", "0", "0", "-", "0", "5", "-", "0", "7">>,
      <<"0", "9", "9", "9", "-", "0", "5", "-", "0", "7">>,
      <<"2", "0", "0", "0", "-", "0", "5", "-", "0", "7", "x">>,
      <<"2", "0", "0", "0", "-", "0", "5", "-", "0", "7", "1">>,
      <<"2", "0", "0", "0", "-", "0", "5">>,
      <<"i", "n", " ", "1", "9", "9", "9", ".", "0", "3", ".", "0", "4", " ", "x">>,
      <<"x", "2", "0", "0", "0", " ", "1", "9", "9", "9">>,
      <<"(", "c", ")", " ", "1", "9", "2", "3", ",", " ", "1", "9", "5", "1">> } }

\* an Agent and an EBook with the fields the word index is made of; Words
\* is what asEBook leaves there by calling ExtractWords
Agent(name, aliases) == [Name |-> name, Aliases |-> aliases]

WordsBook(title, subjects, creators, illustrators, agents) ==
    LET e == [Title |-> title, Subjects |-> subjects, Creators |-> creators,
              Illustrators |-> illustrators, Agents |-> agents]
    IN [Title |-> title, Subjects |-> subjects, Creators |-> creators,
        Illustrators |-> illustrators, Agents |-> agents,
        Words |-> ExtractWords(e)]

WordsBooks ==
    { WordsBook(<<"T", "h", "e", " ", "I", "r", "o", "n", " ", "H", "e", "e", "l">>,
                << <<"S", "c", "i", "e", "n", "c", "e", " ", "f", "i", "c", "t", "i", "o", "n">>,
                   <<"U", "t", "o", "p", "i", "a", "s", " ", "-", "-", " ", "F", "i", "c", "t", "i", "o", "n">> >>,
                <<"a1">>, <<>>,
                [a \in {"a1"} |->
                    Agent(<<"L", "o", "n", "d", "o", "n", ",", " ", "J", "a", "c", "k">>,
                          << <<"L", "o", "n", "d", "o", "n", ",", " ", "J", "o", "h", "n", " ", "G", ".">> >>)]),
      WordsBook(<<"A", "l", "i", "c", "e", " ", "i", "n", " ", "1", "_", "L", "a", "n", "d">>,
                << <<"F", "a", "n", "t", "a", "s", "y">> >>,
                <<"a2">>, <<"a3">>,
                [a \in {"a2", "a3"} |->
                    IF a = "a2"
                    THEN Agent(<<"C", "a", "r", "r", "o", "l", "l", ",", " ", "L", "e", "w", "i", "s">>, <<>>)
                    ELSE Agent(<<"T", "e", "n", "n", "i", "e", "l", ",", " ", "J", "o", "h", "n">>,
                               << <<"I", "r", "o", "n", " ", "J", "a", "c", "k">> >>)]),
      WordsBook(<<>>, <<>>, <<>>, <<>>, [a \in {} |-> Agent(<<>>, <<>>)]) }

\* values of one or more words
WordsValues ==
    { <<"i", "r", "o", "n">>, <<"I", "r", "o", "n">>, <<"h", "e", "e", "l">>, <<"r", "o", "n">>,
      <<"i", "r", "o", "n", " ", "h", "e", "e", "l">>, <<"h", "e", "e", "l", " ", "i", "r", "o", "n">>, <<"t", "h", "e", " ", "i", "r", "o", "n", " ", "h", "e", "e", "l">>,
      <<"j", "a", "c", "k">>, <<"j", "o", "h", "n">>, <<"l", "o", "n", "d", "o", "n">>, <<"l", "o", "n", "d", "o", "n", " ", "j", "a", "c", "k">>,
      <<"j", "o", "h", "n", " ", "g">>, <<"f", "i", "c", "t", "i", "o", "n">>, <<"s", "c", "i", "e", "n", "c", "e", " ", "f", "i", "c", "t", "i", "o", "n">>,
      <<"u", "t", "o", "p", "i", "a", "s">>, <<"f", "a", "n", "t", "a", "s", "y">>, <<"a", "l", "i", "c", "e">>, <<"1", "_", "l", "a", "n", "d">>, <<"l", "a", "n", "d">>,
      <<"t", "e", "n", "n", "i", "e", "l">>, <<"l", "e", "w", "i", "s">>, <<"i", "r", "o", "n", " ", "j", "a", "c", "k">> }

testWordsInputs ==
    { [fn |-> "testWords", value |-> v, matchGen |-> m, eb |-> b] :
        v \in WordsValues,
        m \in {"matchCreator", "matchIllustrator", "matchSubject", "matchTitle"},
        b \in WordsBooks }

\* booktypes.BuildFile: for _, fmt := range formats, "application/zip"
\* sets the compression and any other entry is assigned to Format; two or
\* more entries without a compression are logged
RECURSIVE BuildFileFrom(_, _, _)
BuildFileFrom(formats, i, f) ==
    IF i > Len(formats)
    THEN [f EXCEPT !.logged = Len(formats) >= 2 /\ f.Comp = "CompNone"]
    ELSE IF formats[i] = Zip
         THEN BuildFileFrom(formats, i + 1, [f EXCEPT !.Comp = "CompZip"])
         ELSE BuildFileFrom(formats, i + 1, [f EXCEPT !.Format = formats[i]])

BuildFile(formats) ==
    BuildFileFrom(formats, 1,
                  [Format |-> <<>>, Comp |-> "CompNone", logged |-> FALSE])

MaxFormats == 2   \* longest format list given to BuildFile

BuildFileInputs ==
    { [fn |-> "BuildFile", formats |-> fs] :
        fs \in UNION { [1..n -> {Zip, Epub, Html, Pdf}] : n \in 0..MaxFormats } }

\* Stats on a snapshot: none, one or more books, with and without files
MaxStatsBooks == 2   \* longest snapshot given to Stats

StatsBooks ==
    { StatsBook(1, "en", "Text", << <<Epub>>, <<Html>> >>, {"iron", "heel"}),
      StatsBook(2, "fr", "Sound", << <<Epub, Zip>> >>, {"iron"}),
      StatsBook(3, "en", "Text", <<>>, {}) }

StatsInputs ==
    { [fn |-> "Stats", books |-> bks] :
        bks \in UNION { [1..n -> StatsBooks] : n \in 0..MaxStatsBooks } }

UnitInputs ==
    CombinerInputs \cup CompareToInputs \cup ParseDateInputs
      \cup testWordsInputs \cup BuildFileInputs \cup StatsInputs

InitUnits ==
    /\ books = <<>>
    /\ bookIDs = EmptyMap
    /\ constraints = NewConstraintSpec
    /\ qstate = QueryStart
    /\ qcount = 0
    /\ qdone = {}
    /\ StoreIdle
    /\ LoadIdle
    /\ config = DefaultConfig
    /\ tasks = [t \in 1..MaxLoads |-> NoTask]
    /\ timers = 0
    /\ process = "running"
    /\ published = <<>>
    /\ loader = NoCall
    /\ loaded = NoCall
    /\ values = <<>>
    /\ response = NoCall
    /\ input \in UnitInputs
    /\ output = NoCall
    /\ HTMLTemplates = EmptyMap
    /\ dataDir = EmptyMap
    /\ rendered = <<>>

notUnits == <<books, bookIDs, constraints, qstate, qcount, qdone, svars,
              lvars, config, tasks, timers, process, published, loader,
              loaded, values, response, input, HTMLTemplates, dataDir,
              rendered>>

\* the call named fn returns v
Returns(fn, v) ==
    /\ input.fn = fn
    /\ output = NoCall
    /\ output' = v
    /\ UNCHANGED notUnits

CallAnd == Returns("And", [value |-> And(input.cfs, input.eb)])

CallOr == Returns("Or", [value |-> Or(input.cfs, input.eb)])

\* d.CompareTo(other), and other.CompareTo(d)
CallCompareTo ==
    Returns("CompareTo", [value |-> CompareTo(input.d, input.other),
                          reverse |-> CompareTo(input.other, input.d)])

\* ParseDate(s), the ToString of its Date, and ParseDate of that
CallParseDate ==
    Returns("ParseDate",
            [date |-> ParseDate(input.s),
             text |-> DateToString(ParseDate(input.s)),
             again |-> ParseDate(DateToString(ParseDate(input.s)))])

\* testWords(value, matchGen)(eb), and matchGen(pat)(eb) as testCreator
\* without the word test calls it
CalltestWords ==
    Returns("testWords",
            [value |-> testWords(input.value, input.matchGen, input.eb),
             unfiltered |-> match(input.matchGen, input.value, input.eb)])

CallBuildFile == Returns("BuildFile", BuildFile(input.formats))

\* svc.Books.Stats() on a store holding the snapshot
CallStatsOn == Returns("Stats", Stats(input.books))

NextUnits ==
    \/ CallAnd
    \/ CallOr
    \/ CallCompareTo
    \/ CallParseDate
    \/ CalltestWords
    \/ CallBuildFile
    \/ CallStatsOn

SpecUnits == InitUnits /\ [][NextUnits]_vars

(***************************************************************************)
(* Properties of the functions (checked under SpecUnits).                  *)
(***************************************************************************)
\* the functor, one of CombinerFunctors, accepts the book
Accepts(cf, eb) == cf.name = "language" /\ eb.Language \in Range(cf.value)

Reverse(seq) == [i \in DOMAIN seq |-> seq[Len(seq) + 1 - i]]

\* C21: And(p1..pn) and Or(p1..pn) with n >= 1 accept a book iff all,
\* respectively at least one, of the pi accept it, in whatever order the pi
\* are given; And() and Or() with no arguments accept no book.
C21_AndOr ==
    (output # NoCall /\ input.fn \in {"And", "Or"}) =>
       LET n == Len(input.cfs)
           all == \A i \in 1..n : Accepts(input.cfs[i], input.eb)
           some == \E i \in 1..n : Accepts(input.cfs[i], input.eb)
       IN /\ (n >= 1 /\ input.fn = "And") => (output.value <=> all)
          /\ (n >= 1 /\ input.fn = "Or") => (output.value <=> some)
          /\ n = 0 => ~output.value
          /\ output.value
               = Combine(input.fn, Reverse(input.cfs), input.eb)

\* And of no arguments has rejected a book
C21_Witness ==
    /\ output # NoCall
    /\ input.fn = "And"
    /\ input.cfs = <<>>
    /\ ~output.value

Sign(x) == IF x < 0 THEN 0 - 1 ELSE IF x > 0 THEN 1 ELSE 0

\* the date lacks a month or a day
YearOnly(d) == d.Month = 0 \/ d.Day = 0

\* the sign of comparing (Year, Month, Day) lexicographically
Lexicographic(a, b) ==
    IF a.Year # b.Year THEN Sign(a.Year - b.Year)
    ELSE IF a.Month # b.Month THEN Sign(a.Month - b.Month)
    ELSE Sign(a.Day - b.Day)

\* C22: CompareTo puts a zero-year Date strictly below every non-zero Date
\* and equal to a zero-year Date; two non-zero Dates compare by Year alone
\* when either lacks a Month or a Day, and by (Year, Month, Day) otherwise;
\* and a.CompareTo(b) and b.CompareTo(a) have opposite signs.
C22_CompareTo ==
    (output # NoCall /\ input.fn = "CompareTo") =>
       LET a == input.d
           b == input.other
           c == output.value
       IN /\ (a.Year = 0 /\ b.Year # 0) => c < 0
          /\ (a.Year = 0 /\ b.Year = 0) => c = 0
          /\ (a.Year # 0 /\ b.Year # 0 /\ (YearOnly(a) \/ YearOnly(b)))
                => Sign(c) = Sign(a.Year - b.Year)
          /\ (a.Year # 0 /\ b.Year # 0 /\ ~YearOnly(a) /\ ~YearOnly(b))
                => Sign(c) = Lexicographic(a, b)
          /\ Sign(output.reverse) = 0 - Sign(c)

\* a zero-year Date with a month and a day was compared with a full Date,
\* below it one way and above it the other way
C22_Witness ==
    /\ output # NoCall
    /\ input.fn = "CompareTo"
    /\ input.d.Year = 0 /\ input.d.Month # 0
    /\ ~YearOnly(input.other) /\ input.other.Year # 0
    /\ output.value < 0
    /\ output.reverse > 0

\* C23: for every Date d that ParseDate returns, ParseDate(d.ToString())
\* is d again.
C23_ParseToStringRoundTrip ==
    (output # NoCall /\ input.fn = "ParseDate") => output.again = output.date

\* the texts of the field the matcher reads
FieldTexts(matchGen, eb) ==
    LET texts(agents) ==
           UNION { {eb.Agents[agents[i]].Name}
                     \cup Range(eb.Agents[agents[i]].Aliases)
                   : i \in DOMAIN agents }
    IN CASE matchGen = "matchCreator" -> texts(eb.Creators)
         [] matchGen = "matchIllustrator" -> texts(eb.Illustrators)
         [] matchGen = "matchSubject" -> Range(eb.Subjects)
         [] matchGen = "matchTitle" -> {eb.Title}

\* the words of the value are consecutive words of the text, separated as
\* in the value
HoldsWords(text, value) ==
    LET t == ToLower(text)
        v == ToLower(value)
    IN \E i \in 1..(Len(t) - Len(v) + 1) :
          /\ SubSeq(t, i, i + Len(v) - 1) = v
          /\ i = 1 \/ t[i - 1] \notin WordChars
          /\ i + Len(v) > Len(t) \/ t[i + Len(v)] \notin WordChars

\* C27: for a value of one or more words and each field matcher m,
\* testWords(value, m) accepts a book exactly when m without the word test
\* accepts it, which is when a text of the field holds the value at word
\* boundaries: the word test rejects no such book.
C27_WordTestIsOptimisation ==
    (output # NoCall /\ input.fn = "testWords") =>
       /\ output.value = output.unfiltered
       /\ output.value
            <=> \E text \in FieldTexts(input.matchGen, input.eb) :
                   HoldsWords(text, input.value)

\* a value of two words was found in the alias of an illustrator, past the
\* word test
C27_Witness ==
    /\ output # NoCall
    /\ input.fn = "testWords"
    /\ input.matchGen = "matchIllustrator"
    /\ Len(GetWords(input.value)) = 2
    /\ output.value

\* C28: BuildFile on a format list: with the ZIP sentinel in the list the
\* compression is zip and Format is the other entry; without it the
\* compression is none and Format is the single entry; with two entries
\* that are not the sentinel a diagnostic is logged and Format is the first
\* of them.
C28_BuildFile ==
    (output # NoCall /\ input.fn = "BuildFile") =>
       LET NotZip(f) == f # Zip
           others == SelectSeq(input.formats, NotZip)
       IN /\ output.Comp
               = IF Zip \in Range(input.formats) THEN "CompZip" ELSE "CompNone"
          /\ others # <<>> => output.Format = others[1]
          /\ Len(others) >= 2 => output.logged

\* the sum of the counts of a map
RECURSIVE SumOfCounts(_)
SumOfCounts(m) ==
    IF DOMAIN m = {} THEN 0
    ELSE LET k == CHOOSE x \in DOMAIN m : TRUE
         IN m[k] + SumOfCounts([x \in DOMAIN m \ {k} |-> m[x]])

RECURSIVE SumOfWords(_)
SumOfWords(bks) ==
    IF bks = <<>> THEN 0
    ELSE Cardinality(Head(bks).Words) + SumOfWords(Tail(bks))

\* C29: for every snapshot, the empty store included, Stats returns
\* TotalBooks equal to the number of books, Languages and Types whose
\* counts each sum to TotalBooks, Formats whose counts sum to TotalFiles,
\* and an AvgIndexSize that is a number: the mean size of the Words sets
\* (no division by zero for the empty store).
C29_Stats ==
    (output # NoCall /\ input.fn = "Stats") =>
       /\ output.TotalBooks = Len(input.books)
       /\ SumOfCounts(output.Languages) = output.TotalBooks
       /\ SumOfCounts(output.Types) = output.TotalBooks
       /\ SumOfCounts(output.Formats) = output.TotalFiles
       /\ output.AvgIndexSize # NaN
       /\ output.AvgIndexSize.den # 0
       /\ Len(input.books) > 0 =>
             output.AvgIndexSize = [num |-> SumOfWords(input.books),
                                    den |-> Len(input.books)]

(***************************************************************************)
(* SpecRender: service.Render, the echo.Renderer behind bookQueryHTML.     *)
(* The template files are chosen at the start and do not change; the text  *)
(* of a file is "good", "failing" (it parses, and its execution returns an *)
(* error) or "bad" (it does not parse), and a file may be unreadable.      *)
(***************************************************************************)
MaxRenders == 3   \* render requests made in one behaviour

MaxNameLen == 16  \* pat: at most 16 characters

\* pat.MatchString(name), pat "^[a-z0-9]{1,16}$"
patMatchString(name) ==
    /\ Len(name) \in 1..MaxNameLen
    /\ \A i \in DOMAIN name : name[i] \in WordChars \ {"_"}

\* htmltmpl.New(name).Parse(tbody): (nil, err) for a text that does not parse
Parse(name, tbody) ==
    IF tbody = "bad" THEN [tmpl |-> Nil, err |-> TRUE]
    ELSE [tmpl |-> [name |-> name, text |-> tbody], err |-> FALSE]

\* tmpl.Execute(w, data): a method call on a nil *Template dereferences nil
Execute(tmpl) ==
    IF tmpl = Nil THEN [panic |-> TRUE]
    ELSE [panic |-> FALSE, err |-> tmpl.text = "failing"]

\* svc.Render(w, name, data, c): the cache it leaves and what it returns
RenderOf(name0, cache, cfg, dir) ==
    LET name == ToLower(name0)
    IN  IF ~patMatchString(name)
        THEN [HTMLTemplates |-> cache,
              ret |-> BadRequest(<<"bad name: ", name>>)]
        ELSE IF name \notin DOMAIN cache \/ cfg.NoCacheTemplates
        THEN IF name \notin DOMAIN dir
             THEN [HTMLTemplates |-> cache,
                   ret |-> BadRequest(<<"couldn't find template ", name>>)]
             ELSE IF dir[name] = "unreadable"
             THEN [HTMLTemplates |-> cache,
                   ret |-> BadRequest(
                              <<"found, but couldn't read template ", name>>)]
             ELSE LET p == Parse(name, dir[name])
                      stored == MapPut(cache, name, p.tmpl)
                  IN  IF p.err
                      THEN [HTMLTemplates |-> stored,
                            ret |-> BadRequest(
                                       <<"parse failure parsing ", name>>)]
                      ELSE [HTMLTemplates |-> stored, ret |-> Execute(p.tmpl)]
        ELSE [HTMLTemplates |-> cache, ret |-> Execute(cache[name])]

\* what the client gets: the HTTPError as it is, the page with http.StatusOK,
\* and a 500 for any other error and for a panic caught by
\* middleware.Recover
Answer(r) ==
    IF r.panic THEN [status |-> 500, panic |-> TRUE]
    ELSE IF r.err THEN [status |-> 500, panic |-> FALSE]
    ELSE [status |-> 200, panic |-> FALSE]

\* the template files: two names, each absent, unreadable or with a text
TemplateFiles == { <<"f", "u", "l", "l">>, <<"x", "1">> }

FileStates == {"good", "failing", "bad", "unreadable"}

DataDirs == UNION { [S -> FileStates] : S \in SUBSET TemplateFiles }

\* the names requested: the files, one in upper case, and names pat rejects
RenderNames ==
    TemplateFiles
      \cup { <<"F", "U", "L", "L">>, <<>>, <<"x", ".", "1">>,
             [i \in 1..(MaxNameLen + 1) |-> "a"] }

InitRender ==
    /\ books = <<>>
    /\ bookIDs = EmptyMap
    /\ constraints = NewConstraintSpec
    /\ qstate = QueryStart
    /\ qcount = 0
    /\ qdone = {}
    /\ StoreIdle
    /\ LoadIdle
    /\ config \in { [DefaultConfig EXCEPT !.NoCacheTemplates = b] :
                      b \in BOOLEAN }
    /\ tasks = [t \in 1..MaxLoads |-> NoTask]
    /\ timers = 0
    /\ process = "running"
    /\ published = <<>>
    /\ loader = NoCall
    /\ loaded = NoCall
    /\ values = <<>>
    /\ response = NoCall
    /\ input = NoCall
    /\ output = NoCall
    /\ HTMLTemplates = EmptyMap
    /\ dataDir \in DataDirs
    /\ rendered = <<>>

notRender == <<books, bookIDs, constraints, qstate, qcount, qdone, svars,
               lvars, config, tasks, timers, process, published, loader,
               loaded, values, input, output, dataDir>>

\* c.Render(http.StatusOK, c.Param("format"), result) of bookQueryHTML
Render(name) ==
    /\ Len(rendered) < MaxRenders
    /\ LET r == RenderOf(name, HTMLTemplates, config, dataDir)
           answer == IF "message" \in DOMAIN r.ret
                     THEN [status |-> r.ret.status, panic |-> FALSE,
                           message |-> r.ret.message]
                     ELSE Answer(r.ret)
       IN  /\ HTMLTemplates' = r.HTMLTemplates
           /\ response' = answer
           /\ rendered' = Append(rendered,
                                 [name |-> name, response |-> answer])
    /\ UNCHANGED notRender

NextRender == \E name \in RenderNames : Render(name)

SpecRender == InitRender /\ [][NextRender]_vars

\* the request names a template whose file does not parse
NamesBadFile(name) ==
    /\ ToLower(name) \in DOMAIN dataDir
    /\ dataDir[ToLower(name)] = "bad"

\* C30: every render request that names a template whose file fails to
\* parse is answered with a 400, the first and every later one for the
\* same name, and no request executes an unusable (nil) entry that a parse
\* failure left in the template cache.
C30_ParseFailureIs400 ==
    \A i \in DOMAIN rendered :
       /\ NamesBadFile(rendered[i].name) => rendered[i].response.status = 400
       /\ ~rendered[i].response.panic

====
